---- MODULE Spec2Model ----
(***************************************************************************)
(* Verification model of the Django learning-lab projects:                *)
(*   - advanced-api-project: the Book API permission classes, the Book    *)
(*     create / update / delete endpoints and the Book list endpoints     *)
(*     with their filter, search and ordering parameters;                 *)
(*   - social_media_api: the follow graph (accounts), posts, comments,    *)
(*     likes, notifications and the notification endpoints.               *)
(* Each subsystem has its own specification over the shared variables.    *)
(***************************************************************************)
EXTENDS Integers, Sequences, FiniteSets, TLC

VARIABLES
    permRequest,    \* advanced-api: the (method, user, action) a permission check is asked about
    permResult,     \* advanced-api: [done, allowed] of that check
    books,          \* advanced-api: the Book table, pk -> row
    nextBookId,     \* advanced-api: the next primary key the Book table hands out
    bookLast,       \* advanced-api: the last Book request and its response
    following,      \* social: the CustomUser.following many-to-many table, <<from, to>> rows
    followLast,     \* social: the last follow / unfollow request and its response
    posts,          \* social: the Post table, sequence of rows (index = pk)
    comments,       \* social: the Comment table, sequence of rows
    likes,          \* social: the Like table, set of <<user, post>> rows
    notifications,  \* social: the Notification table, sequence of rows (index = pk)
    socialLast,     \* social: the last posts / notifications request and its response
    notifLast,      \* social: the last request to the notification endpoints and its response
    queryLast,      \* advanced-api: the last Book list request and its response
    feedLast,       \* social: the last step of the feed scenario and its response
    followProcs,    \* social: the follow requests in flight, each with its position
    accessRequest,  \* advanced-api: the (class, method, user, owner) an access check is asked about
    accessResult,   \* advanced-api: [done, allowed] of that check
    blogPosts,      \* blog: the Post table, pk -> row
    blogComments,   \* blog: the Comment table, pk -> row
    blogLast,       \* blog: the last edit / delete request and its response
    authUsers,      \* blog: the auth User table, set of usernames
    userProfiles,   \* blog: the UserProfile table, sequence of rows
    profileLast     \* blog: the last user-creating call and how it ended

vars == <<permRequest, permResult, books, nextBookId, bookLast,
          following, followLast, posts, comments, likes, notifications, socialLast,
          notifLast, queryLast, feedLast, followProcs, accessRequest, accessResult,
          blogPosts, blogComments, blogLast, authUsers, userProfiles, profileLast>>

permVars   == <<permRequest, permResult>>
bookVars   == <<books, nextBookId, bookLast>>
followVars == <<following, followLast>>
socialVars == <<posts, comments, likes, notifications, socialLast>>
notifVars  == <<notifLast>>
queryVars  == <<queryLast>>
feedVars   == <<feedLast>>
raceVars   == <<followProcs>>
accessVars == <<accessRequest, accessResult>>
blogVars   == <<blogPosts, blogComments, blogLast>>
profileVars == <<authUsers, userProfiles, profileLast>>
extVars    == <<feedVars, raceVars, accessVars, blogVars, profileVars>>

(***************************************************************************)
(* Identities.  request.user is AnonymousUser (not authenticated, not      *)
(* staff) or a stored user.                                                *)
(***************************************************************************)
AnonymousUser == [id |-> 0, is_authenticated |-> FALSE, is_staff |-> FALSE]
RegularUser   == [id |-> 1, is_authenticated |-> TRUE,  is_staff |-> FALSE]
StaffUser     == [id |-> 2, is_authenticated |-> TRUE,  is_staff |-> TRUE]
Identities    == {AnonymousUser, RegularUser, StaffUser}

SAFE_METHODS  == {"GET", "HEAD", "OPTIONS"}
WriteMethods  == {"POST", "PUT", "PATCH", "DELETE"}
Methods       == SAFE_METHODS \cup WriteMethods

\* getattr(view, 'action', None): the ViewSet actions, a custom action, or None
ViewActions == {"create", "update", "partial_update", "destroy",
                "list", "retrieve", "duplicate_book", "None"}

(***************************************************************************)
(* advanced-api-project/api/permissions.py                                 *)
(***************************************************************************)
\* mutant: OPTIONS is not treated as a safe method
has_permission_options_unsafe(method, user, action) ==
    IF method \in {"GET", "HEAD"} THEN TRUE
    ELSE IF action = "destroy" THEN user.is_authenticated /\ user.is_staff
    ELSE user.is_authenticated

\* mutant: the default branch allows every remaining write
has_permission_default_open(method, user, action) ==
    IF method \in SAFE_METHODS THEN TRUE
    ELSE IF action \in {"create", "update", "partial_update"} THEN user.is_authenticated
    ELSE IF action = "destroy" THEN user.is_authenticated /\ user.is_staff
    ELSE TRUE

\* mutant: destroy only asks for authentication
has_permission_destroy_any_user(method, user, action) ==
    IF method \in SAFE_METHODS THEN TRUE
    ELSE user.is_authenticated

\* BookActionPermission.has_permission
has_permission(method, user, action) ==
    IF method \in SAFE_METHODS THEN TRUE
    ELSE IF action = "create" THEN user.is_authenticated
    ELSE IF action = "update" THEN user.is_authenticated
    ELSE IF action = "partial_update" THEN user.is_authenticated
    ELSE IF action = "destroy" THEN user.is_authenticated /\ user.is_staff
    ELSE user.is_authenticated

\* rest_framework.permissions.IsAuthenticated as the views use it
IsAuthenticated(user) == user.is_authenticated

InitPermIdle == /\ permRequest = [method |-> "GET", user |-> AnonymousUser, action |-> "None"]
                /\ permResult = [done |-> FALSE, allowed |-> FALSE]

\* a request reaches BookViewSet and its permission class is asked
CheckPermission ==
    /\ permResult.done = FALSE
    /\ permResult' = [done |-> TRUE,
                      allowed |-> has_permission(permRequest.method, permRequest.user,
                                                 permRequest.action)]
    /\ UNCHANGED permRequest

(***************************************************************************)
(* advanced-api-project/api/models.py, serializers.py, views.py            *)
(***************************************************************************)
MaxBooks           == 3      \* primary keys the Book table hands out in a run
MinPublicationYear == 1000
CurrentYear        == 2025   \* datetime.now().year when the validators are built

BookIds         == 1..MaxBooks
PkInputs        == 1..(MaxBooks + 1)        \* MaxBooks + 1 never names a row
AuthorIds       == {1}                      \* rows of the Author table
AuthorInputs    == {1, 2}                   \* 2 names no Author
Titles          == {"A", "B"}
YearInputs      == {1937, 1954, CurrentYear + 1}
BookData        == [title : Titles, author : AuthorInputs, publication_year : YearInputs]
PatchInputs     == ({"title"} \X Titles) \cup ({"publication_year"} \X YearInputs)

\* Book.publication_year validators and BookSerializer.validate_publication_year
valid_publication_year(y) == y >= MinPublicationYear /\ y <= CurrentYear

\* Book.Meta.unique_together = ['title', 'author'], the row `self` excluded
unique_together_ok(table, data, self) ==
    \A pk \in DOMAIN table :
        pk # self => ~(table[pk].title = data.title /\ table[pk].author = data.author)

\* BookSerializer.is_valid on a full set of fields
BookSerializer_is_valid(table, data, self) ==
    /\ data.author \in AuthorIds
    /\ valid_publication_year(data.publication_year)
    /\ unique_together_ok(table, data, self)

\* the response a denied permission check gets at the boundary
HTTP_403_FORBIDDEN == 403

BookResponse(view, method, user, pk, status) ==
    [view |-> view, method |-> method, user |-> user, pk |-> pk, status |-> status]

InitBooks == /\ books = <<>>
             /\ nextBookId = 1
             /\ bookLast = BookResponse("none", "GET", AnonymousUser, 0, 0)

\* mutant: the create view is open to everyone
BookCreateView_permission_AllowAny(user) == TRUE

\* BookCreateView.permission_classes
BookCreateView_permission(user) == IsAuthenticated(user)

\* BookUpdateView.permission_classes
BookUpdateView_permission(user) == IsAuthenticated(user)

\* BookDeleteView.permission_classes
BookDeleteView_permission(user) == IsAuthenticated(user)

\* POST books/create/
BookCreateView_post(user, data) ==
    IF ~BookCreateView_permission(user)
    THEN /\ bookLast' = BookResponse("BookCreateView", "POST", user, 0, HTTP_403_FORBIDDEN)
         /\ UNCHANGED <<books, nextBookId>>
    ELSE IF ~BookSerializer_is_valid(books, data, 0)
    THEN /\ bookLast' = BookResponse("BookCreateView", "POST", user, 0, 400)
         /\ UNCHANGED <<books, nextBookId>>
    ELSE /\ nextBookId <= MaxBooks
         /\ books' = [pk \in DOMAIN books \cup {nextBookId} |->
                         IF pk = nextBookId THEN data ELSE books[pk]]
         /\ nextBookId' = nextBookId + 1
         /\ bookLast' = BookResponse("BookCreateView", "POST", user, nextBookId, 201)

\* PUT books/<pk>/update/
BookUpdateView_put(user, pk, data) ==
    IF ~BookUpdateView_permission(user)
    THEN /\ bookLast' = BookResponse("BookUpdateView", "PUT", user, pk, HTTP_403_FORBIDDEN)
         /\ UNCHANGED <<books, nextBookId>>
    ELSE IF pk \notin DOMAIN books
    THEN /\ bookLast' = BookResponse("BookUpdateView", "PUT", user, pk, 404)
         /\ UNCHANGED <<books, nextBookId>>
    ELSE IF ~BookSerializer_is_valid(books, data, pk)
    THEN /\ bookLast' = BookResponse("BookUpdateView", "PUT", user, pk, 400)
         /\ UNCHANGED <<books, nextBookId>>
    ELSE /\ books' = [books EXCEPT ![pk] = data]
         /\ bookLast' = BookResponse("BookUpdateView", "PUT", user, pk, 200)
         /\ UNCHANGED nextBookId

\* the row a partial update of one field asks for
patched(row, field, value) ==
    IF field = "title" THEN [row EXCEPT !.title = value]
    ELSE [row EXCEPT !.publication_year = value]

\* PATCH books/<pk>/update/ with one field in the body
BookUpdateView_patch(user, pk, field, value) ==
    IF ~BookUpdateView_permission(user)
    THEN /\ bookLast' = BookResponse("BookUpdateView", "PATCH", user, pk, HTTP_403_FORBIDDEN)
         /\ UNCHANGED <<books, nextBookId>>
    ELSE IF pk \notin DOMAIN books
    THEN /\ bookLast' = BookResponse("BookUpdateView", "PATCH", user, pk, 404)
         /\ UNCHANGED <<books, nextBookId>>
    ELSE IF ~BookSerializer_is_valid(books, patched(books[pk], field, value), pk)
    THEN /\ bookLast' = BookResponse("BookUpdateView", "PATCH", user, pk, 400)
         /\ UNCHANGED <<books, nextBookId>>
    ELSE /\ books' = [books EXCEPT ![pk] = patched(books[pk], field, value)]
         /\ bookLast' = BookResponse("BookUpdateView", "PATCH", user, pk, 200)
         /\ UNCHANGED nextBookId

\* DELETE books/<pk>/delete/
BookDeleteView_destroy(user, pk) ==
    IF ~BookDeleteView_permission(user)
    THEN /\ bookLast' = BookResponse("BookDeleteView", "DELETE", user, pk, HTTP_403_FORBIDDEN)
         /\ UNCHANGED <<books, nextBookId>>
    ELSE IF pk \notin DOMAIN books
    THEN /\ bookLast' = BookResponse("BookDeleteView", "DELETE", user, pk, 404)
         /\ UNCHANGED <<books, nextBookId>>
    ELSE /\ books' = [k \in DOMAIN books \ {pk} |-> books[k]]
         /\ bookLast' = BookResponse("BookDeleteView", "DELETE", user, pk, 204)
         /\ UNCHANGED nextBookId


(***************************************************************************)
(* advanced-api-project/api/advanced_views.py: BookViewSet, whose          *)
(* permission class is BookActionPermission                                 *)
(***************************************************************************)
\* POST books-viewset/  (action create)
BookViewSet_create(user, data) ==
    IF ~has_permission("POST", user, "create")
    THEN /\ bookLast' = BookResponse("BookViewSet", "POST", user, 0, HTTP_403_FORBIDDEN)
         /\ UNCHANGED <<books, nextBookId>>
    ELSE IF ~BookSerializer_is_valid(books, data, 0)
    THEN /\ bookLast' = BookResponse("BookViewSet", "POST", user, 0, 400)
         /\ UNCHANGED <<books, nextBookId>>
    ELSE /\ nextBookId <= MaxBooks
         /\ books' = [pk \in DOMAIN books \cup {nextBookId} |->
                         IF pk = nextBookId THEN data ELSE books[pk]]
         /\ nextBookId' = nextBookId + 1
         /\ bookLast' = BookResponse("BookViewSet", "POST", user, nextBookId, 201)

\* PUT books-viewset/<pk>/  (action update)
BookViewSet_update(user, pk, data) ==
    IF ~has_permission("PUT", user, "update")
    THEN /\ bookLast' = BookResponse("BookViewSet", "PUT", user, pk, HTTP_403_FORBIDDEN)
         /\ UNCHANGED <<books, nextBookId>>
    ELSE IF pk \notin DOMAIN books
    THEN /\ bookLast' = BookResponse("BookViewSet", "PUT", user, pk, 404)
         /\ UNCHANGED <<books, nextBookId>>
    ELSE IF ~BookSerializer_is_valid(books, data, pk)
    THEN /\ bookLast' = BookResponse("BookViewSet", "PUT", user, pk, 400)
         /\ UNCHANGED <<books, nextBookId>>
    ELSE /\ books' = [books EXCEPT ![pk] = data]
         /\ bookLast' = BookResponse("BookViewSet", "PUT", user, pk, 200)
         /\ UNCHANGED nextBookId

\* DELETE books-viewset/<pk>/  (action destroy)
BookViewSet_destroy(user, pk) ==
    IF ~has_permission("DELETE", user, "destroy")
    THEN /\ bookLast' = BookResponse("BookViewSet", "DELETE", user, pk, HTTP_403_FORBIDDEN)
         /\ UNCHANGED <<books, nextBookId>>
    ELSE IF pk \notin DOMAIN books
    THEN /\ bookLast' = BookResponse("BookViewSet", "DELETE", user, pk, 404)
         /\ UNCHANGED <<books, nextBookId>>
    ELSE /\ books' = [k \in DOMAIN books \ {pk} |-> books[k]]
         /\ bookLast' = BookResponse("BookViewSet", "DELETE", user, pk, 204)
         /\ UNCHANGED nextBookId


\* the row Book.objects.create stores for a copy of `book`
duplicate_of(book) ==
    [title |-> book.title \o " (Copy)", author |-> book.author,
     publication_year |-> book.publication_year]

\* POST books-viewset/<pk>/duplicate_book/ : permission_classes=[IsAuthenticated];
\* Book.objects.create raises IntegrityError when (title, author) is already stored,
\* and the action does not catch it
duplicate_book(user, pk) ==
    IF ~IsAuthenticated(user)
    THEN /\ bookLast' = BookResponse("duplicate_book", "POST", user, pk, HTTP_403_FORBIDDEN)
         /\ UNCHANGED <<books, nextBookId>>
    ELSE IF pk \notin DOMAIN books
    THEN /\ bookLast' = BookResponse("duplicate_book", "POST", user, pk, 404)
         /\ UNCHANGED <<books, nextBookId>>
    ELSE IF ~unique_together_ok(books, duplicate_of(books[pk]), 0)
    THEN /\ bookLast' = BookResponse("duplicate_book", "POST", user, pk, 500)
         /\ UNCHANGED <<books, nextBookId>>
    ELSE /\ nextBookId <= MaxBooks
         /\ books' = [k \in DOMAIN books \cup {nextBookId} |->
                         IF k = nextBookId THEN duplicate_of(books[pk]) ELSE books[k]]
         /\ nextBookId' = nextBookId + 1
         /\ bookLast' = BookResponse("duplicate_book", "POST", user, pk, 201)


(***************************************************************************)
(* social_media_api/accounts/models.py, views.py                           *)
(***************************************************************************)
NumUsers == 3                         \* rows of the CustomUser table
Users        == 1..NumUsers
UserIdInputs == 1..(NumUsers + 1)     \* NumUsers + 1 names no user
Anonymous    == 0                     \* request.user of a request without a token
Requesters   == Users \cup {Anonymous}

HTTP_401_UNAUTHORIZED == 401

\* CustomUser.is_following
is_following(table, self, user) == <<self, user>> \in table

\* CustomUser.followers_count
followers_count(table, user) == Cardinality({row \in table : row[2] = user})

\* CustomUser.following_count
following_count(table, user) == Cardinality({row \in table : row[1] = user})

\* mutant: the many-to-many field is symmetrical
CustomUser_follow_symmetrical(table, self, user) ==
    IF user # self THEN table \cup {<<self, user>>, <<user, self>>} ELSE table

\* CustomUser.follow
CustomUser_follow(table, self, user) ==
    IF user # self THEN table \cup {<<self, user>>} ELSE table

\* mutant: unfollow clears the whole following list
CustomUser_unfollow_clear(table, self, user) ==
    {row \in table : row[1] # self}

\* CustomUser.unfollow
CustomUser_unfollow(table, self, user) == table \ {<<self, user>>}

FollowResponse(op, user, user_id, status, error, count, before) ==
    [op |-> op, user |-> user, user_id |-> user_id, status |-> status,
     error |-> error, followers_count |-> count, before |-> before]

InitFollow == /\ following = {}
              /\ followLast = FollowResponse("none", Anonymous, 0, 0, "", -1, {})

\* mutant: the self-follow check is left to CustomUser.follow
follow_user_no_self_check(current_user, user_id) ==
    IF current_user = Anonymous
    THEN /\ followLast' = FollowResponse("follow", current_user, user_id,
                                         HTTP_401_UNAUTHORIZED, "not_authenticated", -1, following)
         /\ UNCHANGED following
    ELSE IF user_id \notin Users
    THEN /\ followLast' = FollowResponse("follow", current_user, user_id, 404,
                                         "User not found", -1, following)
         /\ UNCHANGED following
    ELSE IF is_following(following, current_user, user_id)
    THEN /\ followLast' = FollowResponse("follow", current_user, user_id, 400,
                                         "You are already following this user", -1, following)
         /\ UNCHANGED following
    ELSE /\ following' = CustomUser_follow(following, current_user, user_id)
         /\ followLast' = FollowResponse("follow", current_user, user_id, 200, "",
                                         followers_count(following', user_id), following)

\* mutant: following twice is an idempotent success
follow_user_idempotent(current_user, user_id) ==
    IF current_user = Anonymous
    THEN /\ followLast' = FollowResponse("follow", current_user, user_id,
                                         HTTP_401_UNAUTHORIZED, "not_authenticated", -1, following)
         /\ UNCHANGED following
    ELSE IF user_id \notin Users
    THEN /\ followLast' = FollowResponse("follow", current_user, user_id, 404,
                                         "User not found", -1, following)
         /\ UNCHANGED following
    ELSE IF current_user = user_id
    THEN /\ followLast' = FollowResponse("follow", current_user, user_id, 400,
                                         "You cannot follow yourself", -1, following)
         /\ UNCHANGED following
    ELSE /\ following' = CustomUser_follow(following, current_user, user_id)
         /\ followLast' = FollowResponse("follow", current_user, user_id, 200, "",
                                         followers_count(following', user_id), following)

\* mutant: the user is not looked up before the edge is written
follow_user_no_lookup(current_user, user_id) ==
    IF current_user = Anonymous
    THEN /\ followLast' = FollowResponse("follow", current_user, user_id,
                                         HTTP_401_UNAUTHORIZED, "not_authenticated", -1, following)
         /\ UNCHANGED following
    ELSE IF current_user = user_id
    THEN /\ followLast' = FollowResponse("follow", current_user, user_id, 400,
                                         "You cannot follow yourself", -1, following)
         /\ UNCHANGED following
    ELSE IF is_following(following, current_user, user_id)
    THEN /\ followLast' = FollowResponse("follow", current_user, user_id, 400,
                                         "You are already following this user", -1, following)
         /\ UNCHANGED following
    ELSE /\ following' = CustomUser_follow(following, current_user, user_id)
         /\ followLast' = FollowResponse("follow", current_user, user_id, 200, "",
                                         followers_count(following', user_id), following)

\* follow_user: POST follow/<user_id>/
follow_user(current_user, user_id) ==
    IF current_user = Anonymous
    THEN /\ followLast' = FollowResponse("follow", current_user, user_id,
                                         HTTP_401_UNAUTHORIZED, "not_authenticated", -1, following)
         /\ UNCHANGED following
    ELSE IF user_id \notin Users
    THEN /\ followLast' = FollowResponse("follow", current_user, user_id, 404,
                                         "User not found", -1, following)
         /\ UNCHANGED following
    ELSE IF current_user = user_id
    THEN /\ followLast' = FollowResponse("follow", current_user, user_id, 400,
                                         "You cannot follow yourself", -1, following)
         /\ UNCHANGED following
    ELSE IF is_following(following, current_user, user_id)
    THEN /\ followLast' = FollowResponse("follow", current_user, user_id, 400,
                                         "You are already following this user", -1, following)
         /\ UNCHANGED following
    ELSE /\ following' = CustomUser_follow(following, current_user, user_id)
         /\ followLast' = FollowResponse("follow", current_user, user_id, 200, "",
                                         followers_count(following', user_id), following)

\* unfollow_user: POST unfollow/<user_id>/
unfollow_user(current_user, user_id) ==
    IF current_user = Anonymous
    THEN /\ followLast' = FollowResponse("unfollow", current_user, user_id,
                                         HTTP_401_UNAUTHORIZED, "not_authenticated", -1, following)
         /\ UNCHANGED following
    ELSE IF user_id \notin Users
    THEN /\ followLast' = FollowResponse("unfollow", current_user, user_id, 404,
                                         "User not found", -1, following)
         /\ UNCHANGED following
    ELSE IF current_user = user_id
    THEN /\ followLast' = FollowResponse("unfollow", current_user, user_id, 400,
                                         "You cannot unfollow yourself", -1, following)
         /\ UNCHANGED following
    ELSE IF ~is_following(following, current_user, user_id)
    THEN /\ followLast' = FollowResponse("unfollow", current_user, user_id, 400,
                                         "You are not following this user", -1, following)
         /\ UNCHANGED following
    ELSE /\ following' = CustomUser_unfollow(following, current_user, user_id)
         /\ followLast' = FollowResponse("unfollow", current_user, user_id, 200, "",
                                         followers_count(following', user_id), following)


(***************************************************************************)
(* social_media_api/posts and social_media_api/notifications               *)
(***************************************************************************)
MaxSocialRows == 4                \* rows of Post + Comment + Like a run creates
SocialUsers      == {1, 2}        \* the users that post, comment and like
SocialRequesters == SocialUsers \cup {Anonymous}
PostPkInputs     == 1..MaxSocialRows

SocialRows == Len(posts) + Len(comments) + Cardinality(likes)

SocialResponse(op, user, pk, status) ==
    [op |-> op, user |-> user, pk |-> pk, status |-> status]

InitSocial == /\ posts = <<>>
              /\ comments = <<>>
              /\ likes = {}
              /\ notifications = <<>>
              /\ socialLast = SocialResponse("none", Anonymous, 0, 0)

\* Notification row as Notification.objects.create stores it (read defaults to False)
Notification(recipient, actor, verb, target) ==
    [recipient |-> recipient, actor |-> actor, verb |-> verb, target |-> target,
     read |-> FALSE]

\* create_notification(recipient, actor, verb, target_ref)
create_notification(table, recipient, actor, verb, target) ==
    IF recipient = actor THEN table
    ELSE Append(table, Notification(recipient, actor, verb, target))

\* posts.permissions.IsAuthorOrReadOnly.has_object_permission: the outcomes it can
\* have for a request of `user` on `obj`
IsAuthorOrReadOnly(method, user, obj) ==
    IF method \in SAFE_METHODS \/ obj.author = user THEN {TRUE} ELSE {TRUE, FALSE}

\* PostViewSet.create / perform_create: POST posts/
PostViewSet_create(user, valid) ==
    IF user = Anonymous
    THEN /\ socialLast' = SocialResponse("create_post", user, 0, HTTP_401_UNAUTHORIZED)
         /\ UNCHANGED <<posts, comments, likes, notifications>>
    ELSE IF ~valid
    THEN /\ socialLast' = SocialResponse("create_post", user, 0, 400)
         /\ UNCHANGED <<posts, comments, likes, notifications>>
    ELSE /\ SocialRows < MaxSocialRows
         /\ posts' = Append(posts, [author |-> user])
         /\ socialLast' = SocialResponse("create_post", user, Len(posts) + 1, 201)
         /\ UNCHANGED <<comments, likes, notifications>>

\* mutant: the comment notifies the post's author, whoever commented
add_comment_notify_always(user, pk, valid, allowed) ==
    IF user = Anonymous
    THEN /\ socialLast' = SocialResponse("add_comment", user, pk, HTTP_401_UNAUTHORIZED)
         /\ UNCHANGED <<posts, comments, likes, notifications>>
    ELSE IF pk \notin DOMAIN posts
    THEN /\ socialLast' = SocialResponse("add_comment", user, pk, 404)
         /\ UNCHANGED <<posts, comments, likes, notifications>>
    ELSE IF ~allowed
    THEN /\ FALSE \in IsAuthorOrReadOnly("POST", user, posts[pk])
         /\ socialLast' = SocialResponse("add_comment", user, pk, 403)
         /\ UNCHANGED <<posts, comments, likes, notifications>>
    ELSE IF ~valid
    THEN /\ socialLast' = SocialResponse("add_comment", user, pk, 400)
         /\ UNCHANGED <<posts, comments, likes, notifications>>
    ELSE /\ SocialRows < MaxSocialRows
         /\ comments' = Append(comments, [post |-> pk, author |-> user])
         /\ notifications' = Append(notifications,
                 Notification(posts[pk].author, user, "commented on your post", pk))
         /\ socialLast' = SocialResponse("add_comment", user, pk, 201)
         /\ UNCHANGED <<posts, likes>>

\* PostViewSet.add_comment: POST posts/<pk>/add_comment/
add_comment(user, pk, valid, allowed) ==
    IF user = Anonymous
    THEN /\ socialLast' = SocialResponse("add_comment", user, pk, HTTP_401_UNAUTHORIZED)
         /\ UNCHANGED <<posts, comments, likes, notifications>>
    ELSE IF pk \notin DOMAIN posts
    THEN /\ socialLast' = SocialResponse("add_comment", user, pk, 404)
         /\ UNCHANGED <<posts, comments, likes, notifications>>
    ELSE IF ~allowed
    THEN /\ FALSE \in IsAuthorOrReadOnly("POST", user, posts[pk])
         /\ socialLast' = SocialResponse("add_comment", user, pk, 403)
         /\ UNCHANGED <<posts, comments, likes, notifications>>
    ELSE IF ~valid
    THEN /\ socialLast' = SocialResponse("add_comment", user, pk, 400)
         /\ UNCHANGED <<posts, comments, likes, notifications>>
    ELSE /\ SocialRows < MaxSocialRows
         /\ comments' = Append(comments, [post |-> pk, author |-> user])
         /\ socialLast' = SocialResponse("add_comment", user, pk, 201)
         /\ UNCHANGED <<posts, likes, notifications>>

\* the like endpoint: POST posts/<pk>/like/
like_post(user, pk) ==
    IF user = Anonymous
    THEN /\ socialLast' = SocialResponse("like", user, pk, HTTP_401_UNAUTHORIZED)
         /\ UNCHANGED <<posts, comments, likes, notifications>>
    ELSE IF pk \notin DOMAIN posts
    THEN /\ socialLast' = SocialResponse("like", user, pk, 404)
         /\ UNCHANGED <<posts, comments, likes, notifications>>
    ELSE IF <<user, pk>> \in likes
    THEN /\ socialLast' = SocialResponse("like", user, pk, 400)
         /\ UNCHANGED <<posts, comments, likes, notifications>>
    ELSE /\ SocialRows < MaxSocialRows
         /\ likes' = likes \cup {<<user, pk>>}
         /\ notifications' = create_notification(notifications, posts[pk].author, user,
                                                 "liked your post", pk)
         /\ socialLast' = SocialResponse("like", user, pk, 201)
         /\ UNCHANGED <<posts, comments>>

(***************************************************************************)
(* social_media_api/notifications/views.py, models.py, serializers.py      *)
(* A row's pk is its index in the table; Notification.timestamp is         *)
(* auto_now_add, so a later row has the later timestamp.                   *)
(***************************************************************************)
MaxNotifications     == 3              \* rows of the Notification table a run starts from
NotificationPkInputs == 1..(MaxNotifications + 1)   \* MaxNotifications + 1 never names a row

\* Notification.objects.filter(recipient=user)
filter_recipient(table, user) == {pk \in DOMAIN table : table[pk].recipient = user}

\* Notification.objects.filter(recipient=user, read=False)
filter_recipient_unread(table, user) ==
    {pk \in filter_recipient(table, user) : table[pk].read = FALSE}

\* Notification.objects.filter(recipient=user, read=False).count()
unread_count(table, user) == Cardinality(filter_recipient_unread(table, user))

\* mutant: mark_as_read flips the flag
mark_as_read_toggle(row) == [row EXCEPT !.read = ~ @]

\* Notification.mark_as_read
mark_as_read(row) == [row EXCEPT !.read = TRUE]

\* mutant: the newest read notifications come first
order_by_key_read_first(table, a, b) ==
    \/ table[a].read /\ ~table[b].read
    \/ table[a].read = table[b].read /\ a > b

\* order_by('read', '-timestamp'): row a is listed before row b
order_by_key(table, a, b) ==
    \/ ~table[a].read /\ table[b].read
    \/ table[a].read = table[b].read /\ a > b

\* the rows `pks` in the order the queryset yields them
RECURSIVE order_by(_, _)
order_by(table, pks) ==
    IF pks = {} THEN <<>>
    ELSE LET first == CHOOSE a \in pks : \A b \in pks \ {a} : order_by_key(table, a, b)
         IN  <<first>> \o order_by(table, pks \ {first})

NotifResponse(op, user, pk, status, count, results) ==
    [op |-> op, user |-> user, pk |-> pk, status |-> status,
     count |-> count, results |-> results]

InitNotifIdle == notifLast = NotifResponse("none", Anonymous, 0, 0, 0, <<>>)

\* NotificationListView: GET notifications/
NotificationListView_list(user) ==
    IF user = Anonymous
    THEN /\ notifLast' = NotifResponse("list", user, 0, HTTP_401_UNAUTHORIZED, 0, <<>>)
         /\ UNCHANGED notifications
    ELSE /\ notifLast' = NotifResponse("list", user, 0, 200, 0,
                             order_by(notifications, filter_recipient(notifications, user)))
         /\ UNCHANGED notifications

\* NotificationDetailView: GET notifications/<pk>/
NotificationDetailView_retrieve(user, pk) ==
    IF user = Anonymous
    THEN /\ notifLast' = NotifResponse("retrieve", user, pk, HTTP_401_UNAUTHORIZED, 0, <<>>)
         /\ UNCHANGED notifications
    ELSE IF pk \notin filter_recipient(notifications, user)
    THEN /\ notifLast' = NotifResponse("retrieve", user, pk, 404, 0, <<>>)
         /\ UNCHANGED notifications
    ELSE /\ notifLast' = NotifResponse("retrieve", user, pk, 200, 0, <<pk>>)
         /\ UNCHANGED notifications

\* the bodies a PUT / PATCH carries: `read` given or left out
NotificationUpdateBodies == [has_read : BOOLEAN, read : BOOLEAN]

\* NotificationUpdateSerializer.update: the only writable field is `read`
NotificationUpdateSerializer_update(row, body) ==
    IF body.has_read THEN [row EXCEPT !.read = body.read] ELSE row

\* NotificationDetailView: PUT / PATCH notifications/<pk>/
NotificationDetailView_update(user, pk, body) ==
    IF user = Anonymous
    THEN /\ notifLast' = NotifResponse("update", user, pk, HTTP_401_UNAUTHORIZED, 0, <<>>)
         /\ UNCHANGED notifications
    ELSE IF pk \notin filter_recipient(notifications, user)
    THEN /\ notifLast' = NotifResponse("update", user, pk, 404, 0, <<>>)
         /\ UNCHANGED notifications
    ELSE /\ notifications' = [notifications EXCEPT
                                 ![pk] = NotificationUpdateSerializer_update(@, body)]
         /\ notifLast' = NotifResponse("update", user, pk, 200, 0, <<pk>>)

\* mutant: the notification is looked up by pk alone
mark_notification_read_any_recipient(user, pk) ==
    IF user = Anonymous
    THEN /\ notifLast' = NotifResponse("mark_read", user, pk, HTTP_401_UNAUTHORIZED, 0, <<>>)
         /\ UNCHANGED notifications
    ELSE IF pk \notin DOMAIN notifications
    THEN /\ notifLast' = NotifResponse("mark_read", user, pk, 404, 0, <<>>)
         /\ UNCHANGED notifications
    ELSE /\ notifications' = [notifications EXCEPT ![pk] = mark_as_read(@)]
         /\ notifLast' = NotifResponse("mark_read", user, pk, 200, 0, <<>>)

\* mark_notification_read: POST notifications/<pk>/read/
mark_notification_read(user, pk) ==
    IF user = Anonymous
    THEN /\ notifLast' = NotifResponse("mark_read", user, pk, HTTP_401_UNAUTHORIZED, 0, <<>>)
         /\ UNCHANGED notifications
    ELSE IF pk \notin filter_recipient(notifications, user)
    THEN /\ notifLast' = NotifResponse("mark_read", user, pk, 404, 0, <<>>)
         /\ UNCHANGED notifications
    ELSE /\ notifications' = [notifications EXCEPT ![pk] = mark_as_read(@)]
         /\ notifLast' = NotifResponse("mark_read", user, pk, 200, 0, <<>>)

\* mutant: every unread notification is updated, whoever receives it
mark_all_notifications_read_everyone(user) ==
    IF user = Anonymous
    THEN /\ notifLast' = NotifResponse("mark_all_read", user, 0, HTTP_401_UNAUTHORIZED, 0, <<>>)
         /\ UNCHANGED notifications
    ELSE LET rows == {pk \in DOMAIN notifications : notifications[pk].read = FALSE}
         IN  /\ notifications' = [pk \in DOMAIN notifications |->
                    IF pk \in rows THEN [notifications[pk] EXCEPT !.read = TRUE]
                    ELSE notifications[pk]]
             /\ notifLast' = NotifResponse("mark_all_read", user, 0, 200,
                                           Cardinality(rows), <<>>)

\* mutant: the response counts the recipient's rows, not the rows changed
mark_all_notifications_read_counts_all(user) ==
    IF user = Anonymous
    THEN /\ notifLast' = NotifResponse("mark_all_read", user, 0, HTTP_401_UNAUTHORIZED, 0, <<>>)
         /\ UNCHANGED notifications
    ELSE LET rows == filter_recipient_unread(notifications, user)
         IN  /\ notifications' = [pk \in DOMAIN notifications |->
                    IF pk \in rows THEN [notifications[pk] EXCEPT !.read = TRUE]
                    ELSE notifications[pk]]
             /\ notifLast' = NotifResponse("mark_all_read", user, 0, 200,
                        Cardinality(filter_recipient(notifications, user)), <<>>)

\* mark_all_notifications_read: POST notifications/mark-all-read/
mark_all_notifications_read(user) ==
    IF user = Anonymous
    THEN /\ notifLast' = NotifResponse("mark_all_read", user, 0, HTTP_401_UNAUTHORIZED, 0, <<>>)
         /\ UNCHANGED notifications
    ELSE LET rows == filter_recipient_unread(notifications, user)
         IN  /\ notifications' = [pk \in DOMAIN notifications |->
                    IF pk \in rows THEN [notifications[pk] EXCEPT !.read = TRUE]
                    ELSE notifications[pk]]
             /\ notifLast' = NotifResponse("mark_all_read", user, 0, 200,
                                           Cardinality(rows), <<>>)

\* unread_notifications_count: GET notifications/unread-count/
unread_notifications_count(user) ==
    IF user = Anonymous
    THEN /\ notifLast' = NotifResponse("unread_count", user, 0, HTTP_401_UNAUTHORIZED, 0, <<>>)
         /\ UNCHANGED notifications
    ELSE /\ notifLast' = NotifResponse("unread_count", user, 0, 200,
                                       unread_count(notifications, user), <<>>)
         /\ UNCHANGED notifications

(***************************************************************************)
(* advanced-api-project/api/views.py, advanced_views.py: the Book list     *)
(* endpoints and the query parameters they read.  A parameter value is a   *)
(* string; the lookups work on its characters.                             *)
(***************************************************************************)
None == "None"      \* query_params.get(name, None) of a parameter the request lacks

\* the characters of the strings the requests and the fixture use
Chars(s) ==
    CASE s = "" -> <<>>
      [] s = "A" -> <<"A">>
      [] s = "B" -> <<"B">>
      [] s = "Hob" -> <<"H", "o", "b">>
      [] s = "Ring" -> <<"R", "i", "n", "g">>
      [] s = "Got" -> <<"G", "o", "t">>
      [] s = "Tol" -> <<"T", "o", "l">>
      [] s = "1" -> <<"1">>
      [] s = "2" -> <<"2">>
      [] s = "x" -> <<"x">>
      [] s = "1937" -> <<"1", "9", "3", "7">>
      [] s = "1954" -> <<"1", "9", "5", "4">>
      [] s = "invalid_year" -> <<"i", "n", "v", "a", "l", "i", "d", "_", "y", "e", "a", "r">>
      [] s = "abc" -> <<"a", "b", "c">>
      [] s = "hob" -> <<"h", "o", "b">>
      [] s = "OL" -> <<"O", "L">>
      [] s = "54" -> <<"5", "4">>
      [] s = "ri" -> <<"r", "i">>
      [] s = "o" -> <<"o">>
      [] s = "zz" -> <<"z", "z">>
      [] s = "title" -> <<"t", "i", "t", "l", "e">>
      [] s = "-title" -> <<"-", "t", "i", "t", "l", "e">>
      [] s = "publication_year" ->
             <<"p", "u", "b", "l", "i", "c", "a", "t", "i", "o", "n", "_", "y", "e", "a", "r">>
      [] s = "-publication_year" ->
             <<"-", "p", "u", "b", "l", "i", "c", "a", "t", "i", "o", "n", "_", "y", "e", "a", "r">>
      [] s = "author__name" -> <<"a", "u", "t", "h", "o", "r", "_", "_", "n", "a", "m", "e">>
      [] s = "id" -> <<"i", "d">>
      [] s = "invalid_field" ->
             <<"i", "n", "v", "a", "l", "i", "d", "_", "f", "i", "e", "l", "d">>
      [] s = "invalid_field,-title" ->
             <<"i", "n", "v", "a", "l", "i", "d", "_", "f", "i", "e", "l", "d", ",",
               "-", "t", "i", "t", "l", "e">>

UpperCase == <<"A", "B", "C", "D", "E", "F", "G", "H", "I", "J", "K", "L", "M",
               "N", "O", "P", "Q", "R", "S", "T", "U", "V", "W", "X", "Y", "Z">>
LowerCase == <<"a", "b", "c", "d", "e", "f", "g", "h", "i", "j", "k", "l", "m",
               "n", "o", "p", "q", "r", "s", "t", "u", "v", "w", "x", "y", "z">>
Digits    == <<"0", "1", "2", "3", "4", "5", "6", "7", "8", "9">>

index(seq, c) == CHOOSE i \in DOMAIN seq : seq[i] = c
occurs(seq, c) == \E i \in DOMAIN seq : seq[i] = c

\* str.lower on one character and on a string
lower_char(c) == IF occurs(UpperCase, c) THEN LowerCase[index(UpperCase, c)] ELSE c
lower(cs) == [i \in 1..Len(cs) |-> lower_char(cs[i])]

\* the position of a letter in the collation of the title and name columns
collate(c) ==
    IF occurs(UpperCase, c) THEN index(UpperCase, c)
    ELSE IF occurs(LowerCase, c) THEN Len(UpperCase) + index(LowerCase, c)
    ELSE 0

\* text a sorts strictly before text b
RECURSIVE text_less(_, _)
text_less(a, b) ==
    IF b = <<>> THEN FALSE
    ELSE IF a = <<>> THEN TRUE
    ELSE IF collate(a[1]) # collate(b[1]) THEN collate(a[1]) < collate(b[1])
    ELSE text_less(Tail(a), Tail(b))

\* the value is a decimal number: int(value) does not raise, a form field accepts it
is_number(cs) == cs # <<>> /\ \A i \in DOMAIN cs : occurs(Digits, cs[i])

\* int(value) of a decimal number
RECURSIVE int(_)
int(cs) ==
    IF cs = <<>> THEN 0
    ELSE 10 * int(SubSeq(cs, 1, Len(cs) - 1)) + (index(Digits, cs[Len(cs)]) - 1)

\* str(n) of a natural number, as the database casts an integer column to text
RECURSIVE str(_)
str(n) == IF n < 10 THEN <<Digits[n + 1]>> ELSE str(n \div 10) \o <<Digits[(n % 10) + 1]>>

\* the lookup <field>__icontains=term
icontains(cs, term) ==
    \E i \in 0..(Len(cs) - Len(term)) : SubSeq(lower(cs), i + 1, i + Len(term)) = lower(term)

\* the lookup <field>__istartswith=term
istartswith(cs, term) ==
    Len(term) <= Len(cs) /\ SubSeq(lower(cs), 1, Len(term)) = lower(term)

\* `if value:` on a query parameter
truthy(value) == value # None /\ value # ""

\* Author.name of the Author rows
author_name(author) == CASE author = 1 -> "Tol"

\* the Book rows the list requests run against: any of the fixture's books, each with
\* one of two publication years
FixtureTitles == <<"Hob", "Ring", "Got">>
FixtureYears  == {1937, 1954}
FixtureTables ==
    UNION {{[pk \in pks |-> [title |-> FixtureTitles[pk], author |-> a[pk],
                             publication_year |-> y[pk]]] :
               a \in [pks -> AuthorIds], y \in [pks -> FixtureYears]} :
           pks \in SUBSET (DOMAIN FixtureTitles)}

\* mutant: the lower bound of the year range is exclusive
publication_year__gte_exclusive(year, value) == year > value

\* the lookups publication_year__gte=value and publication_year__lte=value
publication_year__gte(year, value) == year >= value
publication_year__lte(year, value) == year <= value

\* IntegerField.get_prep_value raises ValueError for a value that is no number
raises_ValueError(value) == truthy(value) /\ ~is_number(Chars(value))

\* BookListView.get_queryset: the range and string filters, or the ValueError that
\* queryset.filter raises
BookListView_get_queryset(table, params) ==
    IF raises_ValueError(params.year_from) \/ raises_ValueError(params.year_to)
    THEN [raised |-> TRUE, pks |-> {}]
    ELSE [raised |-> FALSE,
          pks |-> {pk \in DOMAIN table :
              /\ truthy(params.year_from) =>
                     publication_year__gte(table[pk].publication_year,
                                           int(Chars(params.year_from)))
              /\ truthy(params.year_to) =>
                     publication_year__lte(table[pk].publication_year,
                                           int(Chars(params.year_to)))
              /\ truthy(params.title_starts_with) =>
                     istartswith(Chars(table[pk].title), Chars(params.title_starts_with))
              /\ truthy(params.author_contains) =>
                     icontains(Chars(author_name(table[pk].author)),
                               Chars(params.author_contains))}]

\* DjangoFilterBackend with filterset_fields = ['author', 'publication_year', 'title']:
\* the filter form is valid (author names an Author row, publication_year is a number)
filterset_is_valid(params) ==
    /\ \/ ~truthy(params.author)
       \/ is_number(Chars(params.author)) /\ int(Chars(params.author)) \in AuthorIds
    /\ ~truthy(params.publication_year) \/ is_number(Chars(params.publication_year))

\* DjangoFilterBackend: the exact-match filters of the cleaned form values
filterset_qs(table, pks, params) ==
    {pk \in pks :
        /\ (truthy(params.author) /\ is_number(Chars(params.author))) =>
               table[pk].author = int(Chars(params.author))
        /\ (truthy(params.publication_year) /\ is_number(Chars(params.publication_year))) =>
               table[pk].publication_year = int(Chars(params.publication_year))
        /\ truthy(params.title) => table[pk].title = params.title}

\* mutant: the search looks at the title alone
search_match_title_only(row, term) == icontains(Chars(row.title), Chars(term))

\* search_fields = ['title', 'author__name']: the row matches one search term
search_match(row, term) ==
    \/ icontains(Chars(row.title), Chars(term))
    \/ icontains(Chars(author_name(row.author)), Chars(term))

\* mutant: the search runs on the whole table, not on the filtered queryset
SearchFilter_whole_table(table, pks, search) ==
    IF ~truthy(search) THEN pks ELSE {pk \in DOMAIN table : search_match(table[pk], search)}

\* SearchFilter.filter_queryset for a search parameter of one term
SearchFilter(table, pks, search) ==
    IF ~truthy(search) THEN pks ELSE {pk \in pks : search_match(table[pk], search)}

\* BookListView.ordering_fields and BookListView.ordering (also Book.Meta.ordering)
ordering_fields  == {"title", "publication_year", "author__name", "id"}
default_ordering == <<Chars("-publication_year"), Chars("title")>>

\* str.split(sep)
RECURSIVE split(_, _)
split(cs, sep) ==
    IF ~occurs(cs, sep) THEN <<cs>>
    ELSE LET i == CHOOSE k \in DOMAIN cs : cs[k] = sep /\ \A j \in 1..(k - 1) : cs[j] # sep
         IN  <<SubSeq(cs, 1, i - 1)>> \o split(SubSeq(cs, i + 1, Len(cs)), sep)

\* str.lstrip('-')
RECURSIVE lstrip_minus(_)
lstrip_minus(cs) == IF cs # <<>> /\ cs[1] = "-" THEN lstrip_minus(Tail(cs)) ELSE cs

valid_ordering_term(term) == lstrip_minus(term) \in {Chars(f) : f \in ordering_fields}

\* OrderingFilter.remove_invalid_fields
remove_invalid_fields(fields) == SelectSeq(fields, valid_ordering_term)

\* mutant: an ordering that names an unknown field is passed to order_by as it is
get_ordering_unchecked(ordering) ==
    IF truthy(ordering) THEN split(Chars(ordering), ",") ELSE default_ordering

\* OrderingFilter.get_ordering: the valid terms of the parameter, else the view's default
get_ordering(ordering) ==
    IF truthy(ordering) /\ remove_invalid_fields(split(Chars(ordering), ",")) # <<>>
    THEN remove_invalid_fields(split(Chars(ordering), ","))
    ELSE default_ordering

\* row a has the smaller value in the column `field`
field_less(table, a, b, field) ==
    IF field = Chars("title")
    THEN text_less(Chars(table[a].title), Chars(table[b].title))
    ELSE IF field = Chars("publication_year")
    THEN table[a].publication_year < table[b].publication_year
    ELSE IF field = Chars("author__name")
    THEN text_less(Chars(author_name(table[a].author)), Chars(author_name(table[b].author)))
    ELSE a < b

\* ORDER BY: row a must come before row b under the terms of `ordering`
RECURSIVE precedes(_, _, _, _)
precedes(table, a, b, ordering) ==
    IF ordering = <<>> THEN FALSE
    ELSE LET term  == Head(ordering)
             desc  == term # <<>> /\ term[1] = "-"
             field == IF desc THEN Tail(term) ELSE term
             first == IF desc THEN field_less(table, b, a, field)
                      ELSE field_less(table, a, b, field)
             last  == IF desc THEN field_less(table, a, b, field)
                      ELSE field_less(table, b, a, field)
         IN  first \/ (~last /\ precedes(table, a, b, Tail(ordering)))

\* QuerySet.order_by(*ordering): the sequences the database may return, rows that tie
\* on every term in either order
QuerySet_order_by(table, pks, ordering) ==
    {r \in [1..Cardinality(pks) -> pks] :
        /\ \A i, j \in DOMAIN r : i # j => r[i] # r[j]
        /\ \A i, j \in DOMAIN r : i < j => ~precedes(table, r[j], r[i], ordering)}

QueryResponse(view, params, status, results) ==
    [view |-> view, params |-> params, status |-> status, results |-> results]

InitQueryIdle == queryLast = QueryResponse("none", <<>>, 0, <<>>)

\* the response of a list view whose queryset is `pks`, sorted by `ordering`
list_response(pks, ordering) ==
    \E r \in QuerySet_order_by(books, pks, ordering) :
        queryLast' = [queryLast EXCEPT !.status = 200, !.results = r]

\* BookListView.list: GET books/
BookListView_list ==
    /\ queryLast.view = "BookListView" /\ queryLast.status = 0
    /\ LET params   == queryLast.params
           queryset == BookListView_get_queryset(books, params)
       IN  IF queryset.raised
           THEN queryLast' = [queryLast EXCEPT !.status = 500]
           ELSE IF ~filterset_is_valid(params)
           THEN queryLast' = [queryLast EXCEPT !.status = 400]
           ELSE list_response(
                    SearchFilter(books, filterset_qs(books, queryset.pks, params),
                                 params.search),
                    get_ordering(params.ordering))

\* BookSearchView.get_queryset: Q(title__icontains) | Q(author__name__icontains)
BookSearchView_get_queryset(table, params) ==
    IF truthy(params.search)
    THEN {pk \in DOMAIN table :
             \/ icontains(Chars(table[pk].title), Chars(params.search))
             \/ icontains(Chars(author_name(table[pk].author)), Chars(params.search))}
    ELSE DOMAIN table

\* BookSearchView.list
BookSearchView_list ==
    /\ queryLast.view = "BookSearchView" /\ queryLast.status = 0
    /\ list_response(
           SearchFilter(books, BookSearchView_get_queryset(books, queryLast.params),
                        queryLast.params.search),
           default_ordering)

\* the order_by values BookAdvancedListView.get_queryset passes on to QuerySet.order_by
advanced_order_by == {"title", "-title", "publication_year", "-publication_year",
                      "author__name", "-author__name"}

\* BookAdvancedListView.get_queryset: the custom ordering
BookAdvancedListView_ordering(order_by_param) ==
    IF order_by_param = None THEN <<Chars("-publication_year")>>
    ELSE IF order_by_param \in advanced_order_by THEN <<Chars(order_by_param)>>
    ELSE default_ordering

\* BookAdvancedListView.get_queryset: the search and the filters, or the ValueError
\* that queryset.filter raises
BookAdvancedListView_get_queryset(table, params) ==
    IF \/ raises_ValueError(params.author_id)
       \/ raises_ValueError(params.year_from)
       \/ raises_ValueError(params.year_to)
    THEN [raised |-> TRUE, pks |-> {}]
    ELSE [raised |-> FALSE,
          pks |-> {pk \in DOMAIN table :
              /\ truthy(params.search) =>
                     \/ icontains(Chars(table[pk].title), Chars(params.search))
                     \/ icontains(Chars(author_name(table[pk].author)), Chars(params.search))
                     \/ icontains(str(table[pk].publication_year), Chars(params.search))
              /\ truthy(params.author_id) => table[pk].author = int(Chars(params.author_id))
              /\ truthy(params.year_from) =>
                     publication_year__gte(table[pk].publication_year,
                                           int(Chars(params.year_from)))
              /\ truthy(params.year_to) =>
                     publication_year__lte(table[pk].publication_year,
                                           int(Chars(params.year_to)))}]

\* BookAdvancedListView.list: GET books/advanced/
BookAdvancedListView_list ==
    /\ queryLast.view = "BookAdvancedListView" /\ queryLast.status = 0
    /\ LET params   == queryLast.params
           queryset == BookAdvancedListView_get_queryset(books, params)
       IN  IF queryset.raised
           THEN queryLast' = [queryLast EXCEPT !.status = 500]
           ELSE list_response(queryset.pks, BookAdvancedListView_ordering(params.order_by))

\* the requests: no parameter, or one or two parameters out of the values below
ListParamValues ==
    [author            |-> {"1", "2", "x"},
     publication_year  |-> {"1937", "invalid_year"},
     title             |-> {"Hob"},
     year_from         |-> {"", "1954", "abc"},
     year_to           |-> {"1937", "1954", "abc"},
     title_starts_with |-> {"ri", "o"},
     author_contains   |-> {"OL", "zz"},
     search            |-> {"", "hob", "OL", "54"},
     ordering          |-> {"title", "-title", "publication_year", "invalid_field",
                            "invalid_field,-title"}]
SearchParamValues ==
    [search |-> {"", "hob", "OL", "54", "zz"}]
AdvancedParamValues ==
    [search    |-> {"", "hob", "54"},
     author_id |-> {"1", "2", "x"},
     year_from |-> {"1954", "abc"},
     year_to   |-> {"1937", "abc"},
     order_by  |-> {"title", "-publication_year", "invalid_field"}]

Requests(values) ==
    LET none   == [name \in DOMAIN values |-> None]
        assign == UNION {{<<name, v>> : v \in values[name]} : name \in DOMAIN values}
    IN  {none} \cup {[[none EXCEPT ![a[1]] = a[2]] EXCEPT ![b[1]] = b[2]] :
                        a \in assign, b \in assign}

\* requests that combine three parameters, as test_filter_search_order_combined does
CombinedParamValues ==
    [author            |-> {"1"},
     publication_year  |-> {"1954"},
     title             |-> {},
     year_from         |-> {"1937"},
     year_to           |-> {"1954"},
     title_starts_with |-> {"ri"},
     author_contains   |-> {"OL"},
     search            |-> {"hob", "o"},
     ordering          |-> {"-publication_year", "title"}]

Requests3(values) ==
    LET none   == [name \in DOMAIN values |-> None]
        assign == UNION {{<<name, v>> : v \in values[name]} : name \in DOMAIN values}
    IN  {[[[none EXCEPT ![a[1]] = a[2]] EXCEPT ![b[1]] = b[2]] EXCEPT ![c[1]] = c[2]] :
            a \in assign, b \in assign, c \in assign}

\* request.query_params.get(name, None) on the query string qs, a sequence of
\* <<name, value>> pairs: the last value given for the name
query_params_get(qs, name) ==
    LET at == {i \in DOMAIN qs : qs[i][1] = name}
    IN  IF at = {} THEN None
        ELSE qs[CHOOSE i \in at : \A j \in at : j <= i][2]

\* the query strings that give each supplied parameter of params once, in any order
QueryStrings(params) ==
    LET supplied == {name \in DOMAIN params : params[name] # None}
    IN  {qs \in [1..Cardinality(supplied) -> {<<name, params[name]>> : name \in supplied}] :
            \A i, j \in DOMAIN qs : i # j => qs[i] # qs[j]}

\* the filters of the book list, in the order the view applies them: the four of
\* BookListView.get_queryset, then DjangoFilterBackend, then SearchFilter
FilterStages == <<"year_from", "year_to", "title_starts_with", "author_contains",
                  "filterset", "search">>

\* one filter applied to the queryset pks
filter_stage(table, pks, params, stage) ==
    CASE stage = "year_from" ->
             {pk \in pks : truthy(params.year_from) =>
                 publication_year__gte(table[pk].publication_year,
                                       int(Chars(params.year_from)))}
      [] stage = "year_to" ->
             {pk \in pks : truthy(params.year_to) =>
                 publication_year__lte(table[pk].publication_year,
                                       int(Chars(params.year_to)))}
      [] stage = "title_starts_with" ->
             {pk \in pks : truthy(params.title_starts_with) =>
                 istartswith(Chars(table[pk].title), Chars(params.title_starts_with))}
      [] stage = "author_contains" ->
             {pk \in pks : truthy(params.author_contains) =>
                 icontains(Chars(author_name(table[pk].author)),
                           Chars(params.author_contains))}
      [] stage = "filterset" -> filterset_qs(table, pks, params)
      [] stage = "search" -> SearchFilter(table, pks, params.search)

\* the filters applied one after the other in the order `stages`
RECURSIVE filter_stages(_, _, _, _)
filter_stages(table, pks, params, stages) ==
    IF stages = <<>> THEN pks
    ELSE filter_stages(table, filter_stage(table, pks, params, Head(stages)), params,
                       Tail(stages))

(***************************************************************************)
(* social_media_api/posts/views.py: feed_view.  Post.created_at is          *)
(* auto_now_add, so a later row of the Post table has the later timestamp.  *)
(***************************************************************************)
FeedUsers      == {1, 2, 3}                \* user1, user2, user3 of FeedAPITest.setUp
FeedRequesters == FeedUsers \cup {Anonymous}
page_size      == 10                       \* paginator.page_size

FeedResponse(op, user, status, results) ==
    [op |-> op, user |-> user, status |-> status, results |-> results]

InitFeedIdle == feedLast = FeedResponse("none", Anonymous, 0, <<>>)

\* mutant: the feed reads the followers instead of the followed users
following_all_followers(table, user) == {row[1] : row \in {r \in table : r[2] = user}}

\* current_user.following.all()
following_all(table, user) == {row[2] : row \in {r \in table : r[1] = user}}

\* Post.objects.filter(author__in=users)
filter_author__in(table, users) == {pk \in DOMAIN table : table[pk].author \in users}

\* .order_by('-created_at')
RECURSIVE order_by_created_at_desc(_)
order_by_created_at_desc(pks) ==
    IF pks = {} THEN <<>>
    ELSE LET newest == CHOOSE pk \in pks : \A other \in pks : other <= pk
         IN  <<newest>> \o order_by_created_at_desc(pks \ {newest})

\* paginator.paginate_queryset without a page parameter: the first page
paginate_queryset(queryset) ==
    IF Len(queryset) <= page_size THEN queryset ELSE SubSeq(queryset, 1, page_size)

\* feed_view: GET feed/
feed_view(user) ==
    IF user = Anonymous
    THEN feedLast' = FeedResponse("feed", user, HTTP_401_UNAUTHORIZED, <<>>)
    ELSE LET following_users == following_all(following, user)
             feed_posts == order_by_created_at_desc(filter_author__in(posts, following_users))
         IN  feedLast' = FeedResponse("feed", user, 200, paginate_queryset(feed_posts))

(***************************************************************************)
(* django_blog/blog/models.py, views.py, views_alternative.py: editing and  *)
(* deleting posts and comments.  A row's pk is its index in the table; a    *)
(* deleted row leaves a gap (primary keys are not handed out again).        *)
(***************************************************************************)
MaxBlogRows == 2                     \* rows of Post + Comment a run creates
BlogUsers      == {1, 2}
BlogRequesters == BlogUsers \cup {Anonymous}
BlogPkInputs   == 1..(MaxBlogRows + 1)
BlogMethods    == {"GET", "POST"}
Contents       == {"v1", "v2"}       \* the text a form submits
Forms          == {[valid |-> FALSE, content |-> ""]}
                  \cup {[valid |-> TRUE, content |-> c] : c \in Contents}
NewForms       == {f \in Forms : f.content # "v2"}    \* a new row starts as "v1"

NoPost    == [author |-> Anonymous, content |-> ""]
NoComment == [author |-> Anonymous, post |-> 0, content |-> ""]

BlogRows == Len(blogPosts) + Len(blogComments)

\* get_object / get_object_or_404 finds the row
post_exists(pk)    == pk \in DOMAIN blogPosts /\ blogPosts[pk] # NoPost
comment_exists(pk) == pk \in DOMAIN blogComments /\ blogComments[pk] # NoComment

BlogResponse(view, method, user, pk, status, redirect) ==
    [view |-> view, method |-> method, user |-> user, pk |-> pk,
     status |-> status, redirect |-> redirect]

InitBlogIdle == /\ blogPosts = <<>>
                /\ blogComments = <<>>
                /\ blogLast = BlogResponse("none", "GET", Anonymous, 0, 0, "")

\* Post.delete(): Comment.post is on_delete=CASCADE
Post_delete(pk) ==
    /\ blogPosts' = [blogPosts EXCEPT ![pk] = NoPost]
    /\ blogComments' = [c \in DOMAIN blogComments |->
                           IF blogComments[c].post = pk THEN NoComment ELSE blogComments[c]]

\* mutant: the views carry LoginRequiredMixin only, without the author test
dispatch_login_only(user, exists, author) ==
    IF user = Anonymous THEN "login"
    ELSE IF ~ exists THEN "404"
    ELSE "pass"

\* LoginRequiredMixin.dispatch, then UserPassesTestMixin.dispatch with
\* test_func = (request.user == self.get_object().author)
dispatch(user, exists, author) ==
    IF user = Anonymous THEN "login"
    ELSE IF ~ exists THEN "404"
    ELSE IF user # author THEN "403"
    ELSE "pass"

\* the response of a request the mixins stop
refused(view, method, user, pk, gate) ==
    CASE gate = "login" -> BlogResponse(view, method, user, pk, 302, "login")
      [] gate = "404"   -> BlogResponse(view, method, user, pk, 404, "")
      [] gate = "403"   -> BlogResponse(view, method, user, pk, 403, "")

\* PostCreateView.post
PostCreateView_post(user, form) ==
    IF user = Anonymous
    THEN /\ blogLast' = BlogResponse("PostCreateView", "POST", user, 0, 302, "login")
         /\ UNCHANGED <<blogPosts, blogComments>>
    ELSE IF ~ form.valid
    THEN /\ blogLast' = BlogResponse("PostCreateView", "POST", user, 0, 200, "")
         /\ UNCHANGED <<blogPosts, blogComments>>
    ELSE /\ blogPosts' = Append(blogPosts, [author |-> user, content |-> form.content])
         /\ blogLast' = BlogResponse("PostCreateView", "POST", user, Len(blogPosts) + 1,
                                     302, "posts_list")
         /\ UNCHANGED blogComments

\* CommentCreateView.post: pk names the post
CommentCreateView_post(user, pk, form) ==
    IF user = Anonymous
    THEN /\ blogLast' = BlogResponse("CommentCreateView", "POST", user, pk, 302, "login")
         /\ UNCHANGED <<blogPosts, blogComments>>
    ELSE IF ~ form.valid
    THEN /\ blogLast' = BlogResponse("CommentCreateView", "POST", user, pk, 200, "")
         /\ UNCHANGED <<blogPosts, blogComments>>
    ELSE IF ~ post_exists(pk)
    THEN /\ blogLast' = BlogResponse("CommentCreateView", "POST", user, pk, 404, "")
         /\ UNCHANGED <<blogPosts, blogComments>>
    ELSE /\ blogComments' = Append(blogComments,
                                   [author |-> user, post |-> pk, content |-> form.content])
         /\ blogLast' = BlogResponse("CommentCreateView", "POST", user, pk, 302, "post_detail")
         /\ UNCHANGED blogPosts

\* PostUpdateView: GET shows the form, POST saves it
PostUpdateView(method, user, pk, form) ==
    LET gate == dispatch(user, post_exists(pk),
                         IF post_exists(pk) THEN blogPosts[pk].author ELSE Anonymous)
    IN  IF gate # "pass"
        THEN /\ blogLast' = refused("PostUpdateView", method, user, pk, gate)
             /\ UNCHANGED <<blogPosts, blogComments>>
        ELSE IF method = "POST" /\ form.valid
        THEN /\ blogPosts' = [blogPosts EXCEPT ![pk].content = form.content]
             /\ blogLast' = BlogResponse("PostUpdateView", method, user, pk, 302, "posts_list")
             /\ UNCHANGED blogComments
        ELSE /\ blogLast' = BlogResponse("PostUpdateView", method, user, pk, 200, "")
             /\ UNCHANGED <<blogPosts, blogComments>>

\* PostDeleteView: GET asks for confirmation, POST deletes
PostDeleteView(method, user, pk) ==
    LET gate == dispatch(user, post_exists(pk),
                         IF post_exists(pk) THEN blogPosts[pk].author ELSE Anonymous)
    IN  IF gate # "pass"
        THEN /\ blogLast' = refused("PostDeleteView", method, user, pk, gate)
             /\ UNCHANGED <<blogPosts, blogComments>>
        ELSE IF method = "POST"
        THEN /\ Post_delete(pk)
             /\ blogLast' = BlogResponse("PostDeleteView", method, user, pk, 302, "posts_list")
        ELSE /\ blogLast' = BlogResponse("PostDeleteView", method, user, pk, 200, "")
             /\ UNCHANGED <<blogPosts, blogComments>>

\* CommentUpdateView
CommentUpdateView(method, user, pk, form) ==
    LET gate == dispatch(user, comment_exists(pk),
                         IF comment_exists(pk) THEN blogComments[pk].author ELSE Anonymous)
    IN  IF gate # "pass"
        THEN /\ blogLast' = refused("CommentUpdateView", method, user, pk, gate)
             /\ UNCHANGED <<blogPosts, blogComments>>
        ELSE IF method = "POST" /\ form.valid
        THEN /\ blogComments' = [blogComments EXCEPT ![pk].content = form.content]
             /\ blogLast' = BlogResponse("CommentUpdateView", method, user, pk,
                                         302, "post_detail")
             /\ UNCHANGED blogPosts
        ELSE /\ blogLast' = BlogResponse("CommentUpdateView", method, user, pk, 200, "")
             /\ UNCHANGED <<blogPosts, blogComments>>

\* CommentDeleteView
CommentDeleteView(method, user, pk) ==
    LET gate == dispatch(user, comment_exists(pk),
                         IF comment_exists(pk) THEN blogComments[pk].author ELSE Anonymous)
    IN  IF gate # "pass"
        THEN /\ blogLast' = refused("CommentDeleteView", method, user, pk, gate)
             /\ UNCHANGED <<blogPosts, blogComments>>
        ELSE IF method = "POST"
        THEN /\ blogComments' = [blogComments EXCEPT ![pk] = NoComment]
             /\ blogLast' = BlogResponse("CommentDeleteView", method, user, pk,
                                         302, "post_detail")
             /\ UNCHANGED blogPosts
        ELSE /\ blogLast' = BlogResponse("CommentDeleteView", method, user, pk, 200, "")
             /\ UNCHANGED <<blogPosts, blogComments>>

\* edit_post_alt: @login_required, get_object_or_404, then the author check
edit_post_alt(method, user, pk, form) ==
    IF user = Anonymous
    THEN /\ blogLast' = BlogResponse("edit_post_alt", method, user, pk, 302, "login")
         /\ UNCHANGED <<blogPosts, blogComments>>
    ELSE IF ~ post_exists(pk)
    THEN /\ blogLast' = BlogResponse("edit_post_alt", method, user, pk, 404, "")
         /\ UNCHANGED <<blogPosts, blogComments>>
    ELSE IF user # blogPosts[pk].author
    THEN /\ blogLast' = BlogResponse("edit_post_alt", method, user, pk, 302, "post_detail")
         /\ UNCHANGED <<blogPosts, blogComments>>
    ELSE IF method = "POST" /\ form.valid
    THEN /\ blogPosts' = [blogPosts EXCEPT ![pk].content = form.content]
         /\ blogLast' = BlogResponse("edit_post_alt", method, user, pk, 302, "post_detail")
         /\ UNCHANGED blogComments
    ELSE /\ blogLast' = BlogResponse("edit_post_alt", method, user, pk, 200, "")
         /\ UNCHANGED <<blogPosts, blogComments>>

\* delete_post_alt
delete_post_alt(method, user, pk) ==
    IF user = Anonymous
    THEN /\ blogLast' = BlogResponse("delete_post_alt", method, user, pk, 302, "login")
         /\ UNCHANGED <<blogPosts, blogComments>>
    ELSE IF ~ post_exists(pk)
    THEN /\ blogLast' = BlogResponse("delete_post_alt", method, user, pk, 404, "")
         /\ UNCHANGED <<blogPosts, blogComments>>
    ELSE IF user # blogPosts[pk].author
    THEN /\ blogLast' = BlogResponse("delete_post_alt", method, user, pk, 302, "post_detail")
         /\ UNCHANGED <<blogPosts, blogComments>>
    ELSE IF method = "POST"
    THEN /\ Post_delete(pk)
         /\ blogLast' = BlogResponse("delete_post_alt", method, user, pk, 302, "posts_list")
    ELSE /\ blogLast' = BlogResponse("delete_post_alt", method, user, pk, 200, "")
         /\ UNCHANGED <<blogPosts, blogComments>>

(***************************************************************************)
(* advanced-api-project/api/permissions.py: the object-level checks, and    *)
(* advanced-api-project/api/views.py: get_permissions of the combined      *)
(* views.  Each check is a function of the request method and identity.    *)
(***************************************************************************)
ObjectPermissionClasses == {"IsOwnerOrReadOnly", "IsAuthenticatedOrReadOnlyForBooks"}
CombinedViews == {"BookListCreateView", "BookRetrieveUpdateDestroyView",
                  "AuthorListCreateView", "AuthorDetailView"}
Objects  == [owner : {1, 2}]        \* obj, with the user it would belong to
NoObject == [owner |-> 0]           \* a view-level check looks at no object

\* mutant: the owner comparison the class is named after
IsOwnerOrReadOnly_checks_owner(method, user, obj) ==
    IF method \in SAFE_METHODS THEN TRUE
    ELSE user.is_authenticated /\ obj.owner = user.id

\* IsOwnerOrReadOnly.has_object_permission
IsOwnerOrReadOnly_has_object_permission(method, user, obj) ==
    IF method \in SAFE_METHODS THEN TRUE
    ELSE user.is_authenticated

\* IsAuthenticatedOrReadOnlyForBooks.has_object_permission
IsAuthenticatedOrReadOnlyForBooks_has_object_permission(method, user, obj) ==
    IF method \in SAFE_METHODS THEN TRUE
    ELSE IF ~ user.is_authenticated THEN FALSE
    ELSE TRUE

\* rest_framework.permissions.AllowAny
AllowAny(user) == TRUE

\* get_permissions of BookListCreateView, BookRetrieveUpdateDestroyView,
\* AuthorListCreateView and AuthorDetailView: the same body in each
get_permissions(view, method) ==
    IF method = "GET" THEN "AllowAny" ELSE "IsAuthenticated"

\* APIView.check_permissions with the classes get_permissions returned
check_permissions(view, method, user) ==
    IF get_permissions(view, method) = "AllowAny" THEN AllowAny(user)
    ELSE IsAuthenticated(user)

InitAccessIdle ==
    /\ accessRequest = [target |-> "none", method |-> "GET", user |-> AnonymousUser,
                        obj |-> NoObject]
    /\ accessResult = [done |-> FALSE, allowed |-> FALSE]

\* a request reaches an object and the permission class is asked about it
CheckObjectPermission ==
    /\ accessRequest.target \in ObjectPermissionClasses
    /\ accessResult.done = FALSE
    /\ accessResult' =
           [done |-> TRUE,
            allowed |-> IF accessRequest.target = "IsOwnerOrReadOnly"
                        THEN IsOwnerOrReadOnly_has_object_permission(
                                 accessRequest.method, accessRequest.user, accessRequest.obj)
                        ELSE IsAuthenticatedOrReadOnlyForBooks_has_object_permission(
                                 accessRequest.method, accessRequest.user, accessRequest.obj)]
    /\ UNCHANGED accessRequest

\* a request reaches a combined view: APIView.initial checks its permissions
CheckViewPermissions ==
    /\ accessRequest.target \in CombinedViews
    /\ accessResult.done = FALSE
    /\ accessResult' = [done |-> TRUE,
                        allowed |-> check_permissions(accessRequest.target,
                                                      accessRequest.method, accessRequest.user)]
    /\ UNCHANGED accessRequest

(***************************************************************************)
(* social_media_api/accounts/views.py: follow_user under concurrent         *)
(* requests.  The is_following query and the insert of following.add are    *)
(* separate statements; the many-to-many table carries a unique constraint  *)
(* on (from, to).                                                           *)
(***************************************************************************)
MaxFollowRequests == 2               \* follow requests in flight together
RaceUsers == {1, 2, 3}

FollowRequest(user, user_id) ==
    [pc |-> "start", user |-> user, user_id |-> user_id, status |-> 0, error |-> "",
     conflict |-> FALSE]

InitRaceIdle == followProcs = <<>>

\* what an insert that meets the unique constraint does: the backend ignores the row
\* (INSERT ... ON CONFLICT DO NOTHING) or raises IntegrityError
ConflictOutcomes == {"ignored", "IntegrityError"}

\* follow_user up to and including the is_following query
follow_user_check(p) ==
    LET r == followProcs[p]
    IN  /\ r.pc = "start"
        /\ followProcs' =
               [followProcs EXCEPT ![p] =
                   IF r.user = r.user_id
                   THEN [r EXCEPT !.pc = "done", !.status = 400,
                                  !.error = "You cannot follow yourself"]
                   ELSE IF is_following(following, r.user, r.user_id)
                   THEN [r EXCEPT !.pc = "done", !.status = 400,
                                  !.error = "You are already following this user"]
                   ELSE [r EXCEPT !.pc = "checked"]]
        /\ UNCHANGED following

\* follow_user from current_user.follow(user_to_follow) to the response; the view
\* catches CustomUser.DoesNotExist only
follow_user_insert(p) ==
    LET r == followProcs[p]
    IN  /\ r.pc = "checked"
        /\ IF <<r.user, r.user_id>> \notin following
           THEN /\ following' = CustomUser_follow(following, r.user, r.user_id)
                /\ followProcs' = [followProcs EXCEPT ![p] =
                                      [r EXCEPT !.pc = "done", !.status = 200]]
           ELSE /\ UNCHANGED following
                /\ \E outcome \in ConflictOutcomes :
                       followProcs' =
                           [followProcs EXCEPT ![p] =
                               IF outcome = "ignored"
                               THEN [r EXCEPT !.pc = "done", !.status = 200,
                                              !.conflict = TRUE]
                               ELSE [r EXCEPT !.pc = "done", !.status = 500,
                                              !.error = "IntegrityError",
                                              !.conflict = TRUE]]

(***************************************************************************)
(* django_blog/blog/models.py, forms.py, views.py: users and their         *)
(* profiles.  UserProfile.user is a OneToOneField, so the UserProfile       *)
(* table takes one row per user and a second insert raises IntegrityError.  *)
(***************************************************************************)
Usernames == {"ann", "bob", "cy", "dee"}

ProfileResponse(op, username, outcome) ==
    [op |-> op, username |-> username, outcome |-> outcome]

InitProfileIdle == /\ authUsers = {}
                   /\ userProfiles = <<>>
                   /\ profileLast = ProfileResponse("none", "", "")

\* the UserProfile rows of a user
profiles_of(table, username) == {i \in DOMAIN table : table[i].user = username}

\* UserProfile.objects.create(user=user): [raised, table]
UserProfile_create(table, username) ==
    IF profiles_of(table, username) # {}
    THEN [raised |-> TRUE, table |-> table]
    ELSE [raised |-> FALSE, table |-> Append(table, [user |-> username])]

\* post_save of User: create_user_profile (when created), then save_user_profile
post_save(table, username, created) ==
    LET made == IF created THEN UserProfile_create(table, username)
                ELSE [raised |-> FALSE, table |-> table]
    IN  IF made.raised THEN [outcome |-> "IntegrityError", table |-> made.table]
        ELSE IF profiles_of(made.table, username) = {}
        THEN [outcome |-> "RelatedObjectDoesNotExist", table |-> made.table]
        ELSE [outcome |-> "ok", table |-> made.table]

\* User.objects.create_user(username): the signal alone makes the profile
create_user(username) ==
    /\ username \notin authUsers
    /\ authUsers' = authUsers \cup {username}
    /\ LET sent == post_save(userProfiles, username, TRUE)
       IN  /\ userProfiles' = sent.table
           /\ profileLast' = ProfileResponse("create_user", username, sent.outcome)

\* user.save() of a stored user (UserUpdateForm.save in the profile view)
update_user(username) ==
    /\ username \in authUsers
    /\ LET sent == post_save(userProfiles, username, FALSE)
       IN  /\ userProfiles' = sent.table
           /\ profileLast' = ProfileResponse("update_user", username, sent.outcome)
    /\ UNCHANGED authUsers

\* CustomUserCreationForm.save(commit) of a valid form: user.save() sends post_save,
\* then the form creates a profile itself
CustomUserCreationForm_save(username, commit) ==
    /\ username \notin authUsers
    /\ IF ~ commit
       THEN /\ profileLast' = ProfileResponse("form_save", username, "ok")
            /\ UNCHANGED <<authUsers, userProfiles>>
       ELSE LET sent == post_save(userProfiles, username, TRUE)
                made == UserProfile_create(sent.table, username)
            IN  /\ authUsers' = authUsers \cup {username}
                /\ IF sent.outcome # "ok"
                   THEN /\ userProfiles' = sent.table
                        /\ profileLast' =
                               ProfileResponse("form_save_commit", username, sent.outcome)
                   ELSE /\ userProfiles' = made.table
                        /\ profileLast' =
                               ProfileResponse("form_save_commit", username,
                                   IF made.raised THEN "IntegrityError" ELSE "ok")

\* register: POST with CustomUserCreationForm; a username that is taken fails
\* validation and the form is shown again
register(username) ==
    IF username \in authUsers
    THEN /\ profileLast' = ProfileResponse("register", username, "invalid")
         /\ UNCHANGED <<authUsers, userProfiles>>
    ELSE LET sent == post_save(userProfiles, username, TRUE)
             made == UserProfile_create(sent.table, username)
         IN  /\ authUsers' = authUsers \cup {username}
             /\ IF sent.outcome # "ok"
                THEN /\ userProfiles' = sent.table
                     /\ profileLast' = ProfileResponse("register", username, sent.outcome)
                ELSE /\ userProfiles' = made.table
                     /\ profileLast' =
                            ProfileResponse("register", username,
                                IF made.raised THEN "IntegrityError" ELSE "ok")

(***************************************************************************)
(* Specifications                                                          *)
(***************************************************************************)
InitExtIdle == InitFeedIdle /\ InitRaceIdle /\ InitAccessIdle /\ InitBlogIdle /\ InitProfileIdle

InitIdle == InitPermIdle /\ InitBooks /\ InitFollow /\ InitSocial /\ InitNotifIdle /\ InitQueryIdle
            /\ InitExtIdle

\* permission checks: every (method, identity, action) is asked once
InitPerm ==
    /\ permRequest \in [method : Methods, user : Identities, action : ViewActions]
    /\ permResult = [done |-> FALSE, allowed |-> FALSE]
    /\ InitBooks /\ InitFollow /\ InitSocial /\ InitNotifIdle /\ InitQueryIdle /\ InitExtIdle

NextPerm == CheckPermission
            /\ UNCHANGED <<bookVars, followVars, socialVars, notifVars, queryVars, extVars>>

SpecPerm == InitPerm /\ [][NextPerm]_vars

\* the Book endpoints
BookFrame == UNCHANGED <<permVars, followVars, socialVars, notifVars, queryVars, extVars>>

CreateBook ==
    /\ \E u \in Identities, d \in BookData : BookCreateView_post(u, d)
    /\ BookFrame
PutBook ==
    /\ \E u \in Identities, pk \in PkInputs, d \in BookData : BookUpdateView_put(u, pk, d)
    /\ BookFrame
PatchBook ==
    /\ \E u \in Identities, pk \in PkInputs, p \in PatchInputs :
           BookUpdateView_patch(u, pk, p[1], p[2])
    /\ BookFrame
DeleteBook ==
    /\ \E u \in Identities, pk \in PkInputs : BookDeleteView_destroy(u, pk)
    /\ BookFrame
ViewSetCreate ==
    /\ \E u \in Identities, d \in BookData : BookViewSet_create(u, d)
    /\ BookFrame
ViewSetUpdate ==
    /\ \E u \in Identities, pk \in PkInputs, d \in BookData : BookViewSet_update(u, pk, d)
    /\ BookFrame
ViewSetDestroy ==
    /\ \E u \in Identities, pk \in PkInputs : BookViewSet_destroy(u, pk)
    /\ BookFrame

NextBooks ==
    \/ CreateBook
    \/ PutBook
    \/ PatchBook
    \/ DeleteBook
    \/ ViewSetCreate
    \/ ViewSetUpdate
    \/ ViewSetDestroy

SpecBooks == InitIdle /\ [][NextBooks]_vars

\* the follow graph
FollowFrame == UNCHANGED <<permVars, bookVars, socialVars, notifVars, queryVars, extVars>>

Follow ==
    /\ \E u \in Requesters, i \in UserIdInputs : follow_user(u, i)
    /\ FollowFrame
Unfollow ==
    /\ \E u \in Requesters, i \in UserIdInputs : unfollow_user(u, i)
    /\ FollowFrame

NextFollow ==
    \/ Follow
    \/ Unfollow

SpecFollow == InitIdle /\ [][NextFollow]_vars

\* posts, comments, likes and the notifications they raise
SocialFrame == UNCHANGED <<permVars, bookVars, followVars, notifVars, queryVars, extVars>>

CreatePost ==
    /\ \E u \in SocialRequesters, valid \in BOOLEAN : PostViewSet_create(u, valid)
    /\ SocialFrame
AddComment ==
    /\ \E u \in SocialRequesters, pk \in PostPkInputs, valid \in BOOLEAN,
          allowed \in BOOLEAN : add_comment(u, pk, valid, allowed)
    /\ SocialFrame
LikePost ==
    /\ \E u \in SocialRequesters, pk \in PostPkInputs : like_post(u, pk)
    /\ SocialFrame

NextSocial ==
    \/ CreatePost
    \/ AddComment
    \/ LikePost

SpecSocial == InitIdle /\ [][NextSocial]_vars

\* the notification endpoints, from any Notification table of up to MaxNotifications rows
NotificationRows ==
    {[recipient |-> r, actor |-> a, verb |-> "liked your post", target |-> 1, read |-> rd] :
        r \in SocialUsers, a \in SocialUsers, rd \in BOOLEAN}
NotificationTables ==
    UNION {[1..n -> {row \in NotificationRows : row.recipient # row.actor}] :
              n \in 0..MaxNotifications}

InitNotif ==
    /\ posts = <<>> /\ comments = <<>> /\ likes = {}
    /\ notifications \in NotificationTables
    /\ socialLast = SocialResponse("none", Anonymous, 0, 0)
    /\ InitPermIdle /\ InitBooks /\ InitFollow /\ InitNotifIdle /\ InitQueryIdle /\ InitExtIdle

NotifFrame == UNCHANGED <<permVars, bookVars, followVars, queryVars,
                          posts, comments, likes, socialLast, extVars>>

ListNotifications ==
    /\ \E u \in SocialRequesters : NotificationListView_list(u)
    /\ NotifFrame
RetrieveNotification ==
    /\ \E u \in SocialRequesters, pk \in NotificationPkInputs :
           NotificationDetailView_retrieve(u, pk)
    /\ NotifFrame
UpdateNotification ==
    /\ \E u \in SocialRequesters, pk \in NotificationPkInputs,
          body \in NotificationUpdateBodies : NotificationDetailView_update(u, pk, body)
    /\ NotifFrame
MarkRead ==
    /\ \E u \in SocialRequesters, pk \in NotificationPkInputs : mark_notification_read(u, pk)
    /\ NotifFrame
MarkAllRead ==
    /\ \E u \in SocialRequesters : mark_all_notifications_read(u)
    /\ NotifFrame
UnreadCount ==
    /\ \E u \in SocialRequesters : unread_notifications_count(u)
    /\ NotifFrame

NextNotif ==
    \/ ListNotifications
    \/ RetrieveNotification
    \/ UpdateNotification
    \/ MarkRead
    \/ MarkAllRead
    \/ UnreadCount

SpecNotif == InitNotif /\ [][NextNotif]_vars

\* the Book list endpoints: one request against one table
InitQuery ==
    /\ books \in FixtureTables
    /\ nextBookId = Len(FixtureTitles) + 1
    /\ bookLast = BookResponse("none", "GET", AnonymousUser, 0, 0)
    /\ queryLast \in
           {QueryResponse("BookListView", p, 0, <<>>) :
               p \in Requests(ListParamValues) \cup Requests3(CombinedParamValues)}
           \cup {QueryResponse("BookSearchView", p, 0, <<>>) :
                    p \in Requests(SearchParamValues)}
           \cup {QueryResponse("BookAdvancedListView", p, 0, <<>>) :
                    p \in Requests(AdvancedParamValues)}
    /\ InitPermIdle /\ InitFollow /\ InitSocial /\ InitNotifIdle /\ InitExtIdle

QueryFrame == UNCHANGED <<permVars, bookVars, followVars, socialVars, notifVars, extVars>>

ListBooks ==
    /\ BookListView_list
    /\ QueryFrame
SearchBooks ==
    /\ BookSearchView_list
    /\ QueryFrame
AdvancedListBooks ==
    /\ BookAdvancedListView_list
    /\ QueryFrame

NextQuery ==
    \/ ListBooks
    \/ SearchBooks
    \/ AdvancedListBooks

SpecQuery == InitQuery /\ [][NextQuery]_vars



\* the feed: users follow and unfollow one another, post, and read their feed
FeedFrame == UNCHANGED <<permVars, bookVars, followLast, comments, likes, notifications,
                         socialLast, notifVars, queryVars,
                         raceVars, accessVars, blogVars, profileVars>>

FeedFollow ==
    /\ \E a \in FeedUsers, b \in FeedUsers :
           /\ following' = CustomUser_follow(following, a, b)
           /\ feedLast' = FeedResponse("follow", a, 0, <<>>)
    /\ UNCHANGED posts
    /\ FeedFrame
FeedUnfollow ==
    /\ \E a \in FeedUsers, b \in FeedUsers :
           /\ following' = CustomUser_unfollow(following, a, b)
           /\ feedLast' = FeedResponse("unfollow", a, 0, <<>>)
    /\ UNCHANGED posts
    /\ FeedFrame
FeedCreatePost ==
    /\ Len(posts) < MaxSocialRows
    /\ \E a \in FeedUsers :
           /\ posts' = Append(posts, [author |-> a])
           /\ feedLast' = FeedResponse("create_post", a, 0, <<>>)
    /\ UNCHANGED following
    /\ FeedFrame
Feed ==
    /\ \E u \in FeedRequesters : feed_view(u)
    /\ UNCHANGED <<following, posts>>
    /\ FeedFrame

NextFeed ==
    \/ FeedFollow
    \/ FeedUnfollow
    \/ FeedCreatePost
    \/ Feed

SpecFeed == InitIdle /\ [][NextFeed]_vars

\* the blog: one request against any Post and Comment tables of up to MaxBlogRows
\* rows; a comment row names a stored post, a deleted row leaves a gap
PostRows == [author : BlogUsers, content : Contents] \cup {NoPost}
CommentRows(n) == [author : BlogUsers, post : 1..n, content : Contents] \cup {NoComment}
BlogTables ==
    UNION {UNION {{<<p, c>> : p \in [1..n -> PostRows],
                             c \in {c \in [1..m -> CommentRows(n)] :
                                       m > 0 => n > 0}} :
                    m \in 0..(MaxBlogRows - n)} :
             n \in 0..MaxBlogRows}

InitBlog ==
    /\ \E tables \in BlogTables :
           /\ \A i \in DOMAIN tables[2] :
                  tables[2][i] # NoComment => tables[1][tables[2][i].post] # NoPost
           /\ blogPosts = tables[1]
           /\ blogComments = tables[2]
    /\ blogLast = BlogResponse("none", "GET", Anonymous, 0, 0, "")
    /\ InitPermIdle /\ InitBooks /\ InitFollow /\ InitSocial /\ InitNotifIdle /\ InitQueryIdle
    /\ InitFeedIdle /\ InitRaceIdle /\ InitAccessIdle /\ InitProfileIdle

BlogFrame == UNCHANGED <<permVars, bookVars, followVars, socialVars, notifVars, queryVars,
                         feedVars, raceVars, accessVars, profileVars>>

BlogCreatePost ==
    /\ blogLast.view = "none"
    /\ BlogRows < MaxBlogRows
    /\ \E u \in BlogRequesters, f \in NewForms : PostCreateView_post(u, f)
    /\ BlogFrame
BlogCreateComment ==
    /\ blogLast.view = "none"
    /\ BlogRows < MaxBlogRows
    /\ \E u \in BlogRequesters, pk \in BlogPkInputs, f \in NewForms :
           CommentCreateView_post(u, pk, f)
    /\ BlogFrame
BlogUpdatePost ==
    /\ blogLast.view = "none"
    /\ \E m \in BlogMethods, u \in BlogRequesters, pk \in BlogPkInputs, f \in Forms :
           PostUpdateView(m, u, pk, f)
    /\ BlogFrame
BlogDeletePost ==
    /\ blogLast.view = "none"
    /\ \E m \in BlogMethods, u \in BlogRequesters, pk \in BlogPkInputs :
           PostDeleteView(m, u, pk)
    /\ BlogFrame
BlogUpdateComment ==
    /\ blogLast.view = "none"
    /\ \E m \in BlogMethods, u \in BlogRequesters, pk \in BlogPkInputs, f \in Forms :
           CommentUpdateView(m, u, pk, f)
    /\ BlogFrame
BlogDeleteComment ==
    /\ blogLast.view = "none"
    /\ \E m \in BlogMethods, u \in BlogRequesters, pk \in BlogPkInputs :
           CommentDeleteView(m, u, pk)
    /\ BlogFrame
BlogEditPostAlt ==
    /\ blogLast.view = "none"
    /\ \E m \in BlogMethods, u \in BlogRequesters, pk \in BlogPkInputs, f \in Forms :
           edit_post_alt(m, u, pk, f)
    /\ BlogFrame
BlogDeletePostAlt ==
    /\ blogLast.view = "none"
    /\ \E m \in BlogMethods, u \in BlogRequesters, pk \in BlogPkInputs :
           delete_post_alt(m, u, pk)
    /\ BlogFrame

NextBlog ==
    \/ BlogCreatePost
    \/ BlogCreateComment
    \/ BlogUpdatePost
    \/ BlogDeletePost
    \/ BlogUpdateComment
    \/ BlogDeleteComment
    \/ BlogEditPostAlt
    \/ BlogDeletePostAlt

SpecBlog == InitBlog /\ [][NextBlog]_vars

\* access checks: every (class or view, method, identity, object) is asked once
InitAccess ==
    /\ accessRequest \in
           [target : ObjectPermissionClasses, method : Methods, user : Identities,
            obj : Objects]
           \cup [target : CombinedViews, method : Methods, user : Identities,
                 obj : {NoObject}]
    /\ accessResult = [done |-> FALSE, allowed |-> FALSE]
    /\ InitPermIdle /\ InitBooks /\ InitFollow /\ InitSocial /\ InitNotifIdle /\ InitQueryIdle
    /\ InitFeedIdle /\ InitRaceIdle /\ InitBlogIdle /\ InitProfileIdle

AccessFrame == UNCHANGED <<permVars, bookVars, followVars, socialVars, notifVars, queryVars,
                           feedVars, raceVars, blogVars, profileVars>>

ObjectPermission ==
    /\ CheckObjectPermission
    /\ AccessFrame
ViewPermissions ==
    /\ CheckViewPermissions
    /\ AccessFrame

NextAccess ==
    \/ ObjectPermission
    \/ ViewPermissions

SpecAccess == InitAccess /\ [][NextAccess]_vars

\* concurrent follow requests: each request runs its two steps, in any interleaving
InitRace ==
    /\ followProcs \in [1..MaxFollowRequests ->
                           {FollowRequest(u, i) : u \in RaceUsers, i \in RaceUsers}]
    /\ following = {}
    /\ followLast = FollowResponse("none", Anonymous, 0, 0, "", -1, {})
    /\ InitPermIdle /\ InitBooks /\ InitSocial /\ InitNotifIdle /\ InitQueryIdle
    /\ InitFeedIdle /\ InitAccessIdle /\ InitBlogIdle /\ InitProfileIdle

RaceFrame == UNCHANGED <<permVars, bookVars, followLast, socialVars, notifVars, queryVars,
                         feedVars, accessVars, blogVars, profileVars>>

RaceCheck ==
    /\ \E p \in DOMAIN followProcs : follow_user_check(p)
    /\ RaceFrame
RaceInsert ==
    /\ \E p \in DOMAIN followProcs : follow_user_insert(p)
    /\ RaceFrame

NextRace ==
    \/ RaceCheck
    \/ RaceInsert

SpecRace == InitRace /\ [][NextRace]_vars

\* duplicating books: books are created, copied and deleted through BookViewSet
DupCreate ==
    /\ \E u \in Identities, d \in BookData : BookViewSet_create(u, d)
    /\ BookFrame
DupDuplicate ==
    /\ \E u \in Identities, pk \in PkInputs : duplicate_book(u, pk)
    /\ BookFrame
DupDestroy ==
    /\ \E u \in Identities, pk \in PkInputs : BookViewSet_destroy(u, pk)
    /\ BookFrame

NextDuplicate ==
    \/ DupCreate
    \/ DupDuplicate
    \/ DupDestroy

SpecDuplicate == InitIdle /\ [][NextDuplicate]_vars

\* users and profiles: users are created by each path and saved again
ProfileFrame == UNCHANGED <<permVars, bookVars, followVars, socialVars, notifVars, queryVars,
                            feedVars, raceVars, accessVars, blogVars>>

CreateUser ==
    /\ \E n \in Usernames : create_user(n)
    /\ ProfileFrame
UpdateUser ==
    /\ \E n \in Usernames : update_user(n)
    /\ ProfileFrame
FormSave ==
    /\ \E n \in Usernames, commit \in BOOLEAN : CustomUserCreationForm_save(n, commit)
    /\ ProfileFrame
Register ==
    /\ \E n \in Usernames : register(n)
    /\ ProfileFrame

NextProfile ==
    \/ CreateUser
    \/ UpdateUser
    \/ FormSave
    \/ Register

SpecProfile == InitIdle /\ [][NextProfile]_vars

(***************************************************************************)
(* Properties                                                              *)
(***************************************************************************)

\* C1: BookActionPermission.has_permission answers True for every request whose
\* method is GET, HEAD or OPTIONS, whoever asks and whatever the view action is.
C1_SafeMethodsAllowed ==
    (permResult.done /\ permRequest.method \in SAFE_METHODS) => permResult.allowed = TRUE

C1_Witness ==
    /\ permResult.done
    /\ permRequest.method = "OPTIONS"
    /\ permRequest.user = AnonymousUser
    /\ permRequest.action = "destroy"
    /\ permResult.allowed

\* C2: for a write method (POST, PUT, PATCH, DELETE) and any action other than
\* destroy, has_permission answers exactly user.is_authenticated.
C2_WriteNeedsAuthentication ==
    (permResult.done /\ permRequest.method \in WriteMethods /\ permRequest.action # "destroy")
        => permResult.allowed = permRequest.user.is_authenticated

C2_Witness ==
    /\ permResult.done
    /\ permRequest.method = "DELETE"
    /\ permRequest.action = "None"
    /\ permRequest.user = AnonymousUser
    /\ ~permResult.allowed

\* C3: for a write method with action destroy, has_permission answers True exactly
\* when the user is authenticated and is staff.
C3_DestroyNeedsStaff ==
    (permResult.done /\ permRequest.method \in WriteMethods /\ permRequest.action = "destroy")
        => permResult.allowed =
               (permRequest.user.is_authenticated /\ permRequest.user.is_staff)

C3_Witness ==
    /\ permResult.done
    /\ permRequest.method = "DELETE"
    /\ permRequest.action = "destroy"
    /\ permRequest.user = RegularUser
    /\ ~permResult.allowed

C5_FollowInsertsEdge ==
    [][ \A a \in Users, b \in Users :
          ( /\ followLast'.op = "follow"
            /\ followLast'.user = a
            /\ followLast'.user_id = b
            /\ a # b
            /\ ~is_following(following, a, b) )
          => ( /\ followLast'.status = 200
               /\ following' = following \cup {<<a, b>>}
               /\ is_following(following', a, b)
               /\ followLast'.followers_count = followers_count(following, b) + 1 ) ]_vars

C5_Witness ==
    /\ followLast.op = "follow"
    /\ followLast.status = 200
    /\ followLast.followers_count = 2
    /\ is_following(following, followLast.user, followLast.user_id)
    /\ ~is_following(following, followLast.user_id, followLast.user)

\* C6: a follow(a, b) request issued while a already follows b is answered 400
\* "already following" and leaves the follow relation unchanged.
C6_FollowTwiceFails ==
    [][ \A a \in Users, b \in Users :
          ( /\ followLast'.op = "follow"
            /\ followLast'.user = a
            /\ followLast'.user_id = b
            /\ is_following(following, a, b) )
          => ( /\ followLast'.status = 400
               /\ followLast'.error = "You are already following this user"
               /\ following' = following ) ]_vars

C6_Witness ==
    /\ followLast.op = "follow"
    /\ followLast.status = 400
    /\ followLast.error = "You are already following this user"
    /\ is_following(following, followLast.user, followLast.user_id)

\* C7: no user ever follows themselves, and a follow request of a user on
\* themselves is answered 400 "cannot follow yourself".
C7_Irreflexive ==
    /\ \A u \in UserIdInputs : ~is_following(following, u, u)
    /\ (followLast.op = "follow" /\ followLast.user \in Users
            /\ followLast.user_id = followLast.user)
         => (followLast.status = 400 /\ followLast.error = "You cannot follow yourself")

C7_Witness ==
    /\ followLast.op = "follow"
    /\ followLast.user \in Users
    /\ followLast.user_id = followLast.user
    /\ followLast.status = 400
    /\ following # {}

C9_UnknownUserNotFound ==
    [][ ( /\ followLast'.op \in {"follow", "unfollow"}
          /\ followLast'.user \in Users
          /\ followLast'.user_id \notin Users )
        => ( /\ followLast'.status = 404
             /\ followLast'.error = "User not found"
             /\ following' = following ) ]_vars

C9_Witness ==
    /\ followLast.op = "follow"
    /\ followLast.user \in Users
    /\ followLast.user_id \notin Users
    /\ followLast.status = 404
    /\ following # {}

C11_EventsNotify ==
    [][LET Notified(r, a) ==
               /\ Len(notifications') = Len(notifications) + 1
               /\ notifications'[Len(notifications')].recipient = r
               /\ notifications'[Len(notifications')].actor = a
               /\ notifications'[Len(notifications')].read = FALSE
               /\ unread_count(notifications', r) = unread_count(notifications, r) + 1
       IN  /\ (following' # following /\ followLast'.op = "follow"
                   /\ followLast'.status = 200)
               => Notified(followLast'.user_id, followLast'.user)
           /\ (<<comments, likes>>' # <<comments, likes>> /\ socialLast'.status = 201
                   /\ socialLast'.op \in {"add_comment", "like"}
                   /\ posts[socialLast'.pk].author # socialLast'.user)
               => Notified(posts[socialLast'.pk].author, socialLast'.user)]_vars

\* C12: mark_all_notifications_read by a user sets read = True on exactly that user's
\* unread notifications, answers the number of rows it changed (0 when none was unread),
\* and leaves the user with an unread count of 0.
C12_MarkAllRead ==
    [][(notifLast'.op = "mark_all_read" /\ notifLast'.status = 200) =>
          LET u == notifLast'.user
          IN  /\ DOMAIN notifications' = DOMAIN notifications
              /\ \A pk \in DOMAIN notifications :
                     notifications'[pk] =
                         IF notifications[pk].recipient = u /\ ~notifications[pk].read
                         THEN [notifications[pk] EXCEPT !.read = TRUE]
                         ELSE notifications[pk]
              /\ notifLast'.count =
                     Cardinality({pk \in DOMAIN notifications :
                                     notifications'[pk] # notifications[pk]})
              /\ unread_count(notifications', u) = 0]_vars

\* two of the requester's notifications were marked, another user's stays unread
C12_Witness ==
    /\ notifLast.op = "mark_all_read" /\ notifLast.status = 200 /\ notifLast.count = 2
    /\ \E pk \in DOMAIN notifications :
           notifications[pk].recipient # notifLast.user /\ ~notifications[pk].read

\* C13: mark_notification_read answers 404 and changes nothing when the notification
\* does not exist or its recipient is not the requesting user; otherwise it answers 200
\* with read = True on that row alone, and on a row already read the table is as before.
C13_MarkRead ==
    [][(notifLast'.op = "mark_read" /\ notifLast'.user # Anonymous) =>
          LET u  == notifLast'.user
              pk == notifLast'.pk
          IN  IF pk \notin DOMAIN notifications \/ notifications[pk].recipient # u
              THEN notifLast'.status = 404 /\ notifications' = notifications
              ELSE /\ notifLast'.status = 200
                   /\ notifications' = [notifications EXCEPT ![pk].read = TRUE]
                   /\ notifications[pk].read => notifications' = notifications]_vars

\* a user asked to mark another user's unread notification: 404, and it is still unread
C13_Witness ==
    /\ notifLast.op = "mark_read" /\ notifLast.status = 404
    /\ notifLast.user # Anonymous
    /\ notifLast.pk \in DOMAIN notifications
    /\ ~notifications[notifLast.pk].read

\* C14: a notification request by user A never returns, counts or modifies a
\* notification whose recipient is another user: those rows are the same before and
\* after, every row returned is A's, and the counts are counts of A's rows.
C14_ScopedToRequester ==
    [][LET u == notifLast'.user
       IN  /\ DOMAIN notifications' = DOMAIN notifications
           /\ \A pk \in DOMAIN notifications :
                  notifications[pk].recipient # u => notifications'[pk] = notifications[pk]
           /\ \A i \in DOMAIN notifLast'.results :
                  notifications[notifLast'.results[i]].recipient = u
           /\ notifLast'.op = "unread_count" =>
                  notifLast'.count =
                      Cardinality({pk \in DOMAIN notifications :
                          notifications[pk].recipient = u /\ ~notifications[pk].read})
           /\ notifLast'.op = "mark_all_read" =>
                  notifLast'.count =
                      Cardinality({pk \in DOMAIN notifications :
                          notifications[pk].recipient = u /\ ~notifications[pk].read})]_vars

\* a user asked to update another user's unread notification: 404, and it is unread
C14_Witness ==
    /\ notifLast.op = "update" /\ notifLast.status = 404
    /\ notifLast.user # Anonymous
    /\ notifLast.pk \in DOMAIN notifications
    /\ ~notifications[notifLast.pk].read

\* C15: the notification list of a user holds that user's notifications, every unread
\* one before every read one, and within the unread and within the read ones the newer
\* before the older.
C15_UnreadFirstNewestFirst ==
    (notifLast.op = "list" /\ notifLast.status = 200) =>
        LET r == notifLast.results
        IN  /\ {r[i] : i \in DOMAIN r} =
                   {pk \in DOMAIN notifications :
                       notifications[pk].recipient = notifLast.user}
            /\ Len(r) = Cardinality({r[i] : i \in DOMAIN r})
            /\ \A i, j \in DOMAIN r :
                   i < j => /\ ~(notifications[r[i]].read /\ ~notifications[r[j]].read)
                            /\ notifications[r[i]].read = notifications[r[j]].read
                                   => r[i] > r[j]

\* a list of three notifications, read and unread ones among them
C15_Witness ==
    /\ notifLast.op = "list" /\ notifLast.status = 200
    /\ Len(notifLast.results) = 3
    /\ \E i, j \in DOMAIN notifLast.results :
           notifications[notifLast.results[i]].read
               /\ ~notifications[notifLast.results[j]].read

\* C16: the year range filter of the book list keeps exactly the books with
\* year_from <= publication_year <= year_to, both bounds inclusive; with one bound given
\* only that bound applies, and with none given the range excludes no book.
C16_YearRange ==
    LET p == queryLast.params
        others_absent == \A name \in DOMAIN p \ {"year_from", "year_to"} : p[name] = None
        given(v)      == v # None /\ v # ""
        in_range(pk)  ==
            /\ given(p.year_from) => int(Chars(p.year_from)) <= books[pk].publication_year
            /\ given(p.year_to)   => books[pk].publication_year <= int(Chars(p.year_to))
    IN  /\ (queryLast.view = "BookListView" /\ queryLast.status = 200) =>
               /\ \A i \in DOMAIN queryLast.results : in_range(queryLast.results[i])
               /\ others_absent =>
                      {queryLast.results[i] : i \in DOMAIN queryLast.results}
                          = {pk \in DOMAIN books : in_range(pk)}
        /\ (queryLast.view = "BookListView" /\ queryLast.status # 0 /\ others_absent
                /\ (given(p.year_from) => is_number(Chars(p.year_from)))
                /\ (given(p.year_to) => is_number(Chars(p.year_to))))
               => queryLast.status = 200

\* year_from = year_to = 1954: a 1954 book is listed and a 1937 book is left out
C16_Witness ==
    /\ queryLast.view = "BookListView" /\ queryLast.status = 200
    /\ queryLast.params.year_from = "1954" /\ queryLast.params.year_to = "1954"
    /\ Len(queryLast.results) = 2
    /\ \E pk \in DOMAIN books : books[pk].publication_year = 1937

\* C17: a book list request whose exact-match filter has a value of the wrong type
\* (publication_year that is no number) is answered 400 and returns no result list.
C17_WrongTypeIs400 ==
    (/\ queryLast.view = "BookListView" /\ queryLast.status # 0
     /\ queryLast.params.publication_year \notin {None, ""}
     /\ ~is_number(Chars(queryLast.params.publication_year)))
        => queryLast.status = 400 /\ queryLast.results = <<>>

\* C18 as stated: whenever the ordering parameter names an unknown field the results
\* of the book list come in the default ordering, publication_year descending and then
\* title ascending.
C18_UnknownFieldDefaultOrdering ==
    LET r == queryLast.results
    IN  (/\ queryLast.view = "BookListView" /\ queryLast.status = 200
         /\ queryLast.params.ordering \notin {None, ""}
         /\ \E i \in DOMAIN split(Chars(queryLast.params.ordering), ",") :
                ~valid_ordering_term(split(Chars(queryLast.params.ordering), ",")[i]))
            => \A i, j \in DOMAIN r :
                   i < j =>
                       \/ books[r[i]].publication_year > books[r[j]].publication_year
                       \/ /\ books[r[i]].publication_year = books[r[j]].publication_year
                          /\ ~text_less(Chars(books[r[j]].title), Chars(books[r[i]].title))

\* C18 amended: an ordering parameter that names an unknown field never changes the
\* status of the request.  On books/ the unknown terms are dropped: if no term is left
\* the results come in the default ordering, otherwise in the order of the terms left.
\* On books/advanced/ an order_by outside the view's list gives the default ordering.
C18_UnknownFieldsDropped ==
    LET p == queryLast.params
        r == queryLast.results
        default_ordered ==
            \A i, j \in DOMAIN r :
                i < j =>
                    \/ books[r[i]].publication_year > books[r[j]].publication_year
                    \/ /\ books[r[i]].publication_year = books[r[j]].publication_year
                       /\ ~text_less(Chars(books[r[j]].title), Chars(books[r[i]].title))
    IN  /\ (/\ queryLast.view = "BookListView" /\ queryLast.status # 0
            /\ p.ordering \notin {None, ""}
            /\ \E i \in DOMAIN split(Chars(p.ordering), ",") :
                   ~valid_ordering_term(split(Chars(p.ordering), ",")[i]))
               => LET terms == split(Chars(p.ordering), ",")
                      known == SelectSeq(terms, valid_ordering_term)
                      q     == [p EXCEPT !.ordering = None]
                  IN  /\ queryLast.status =
                             IF BookListView_get_queryset(books, q).raised THEN 500
                             ELSE IF ~filterset_is_valid(q) THEN 400 ELSE 200
                      /\ (queryLast.status = 200 /\ known = <<>>) => default_ordered
                      /\ (queryLast.status = 200 /\ known # <<>>) =>
                             \A i, j \in DOMAIN r :
                                 i < j => ~precedes(books, r[j], r[i], known)
        /\ (/\ queryLast.view = "BookAdvancedListView" /\ queryLast.status # 0
            /\ p.order_by # None /\ p.order_by \notin advanced_order_by)
               => /\ queryLast.status =
                         IF BookAdvancedListView_get_queryset(
                                books, [p EXCEPT !.order_by = None]).raised
                         THEN 500 ELSE 200
                  /\ queryLast.status = 200 => default_ordered

\* ordering=invalid_field on three books, two of them of the same year
C18_Witness ==
    /\ queryLast.view = "BookListView" /\ queryLast.status = 200
    /\ queryLast.params.ordering = "invalid_field"
    /\ Len(queryLast.results) = 3
    /\ \E a, b \in DOMAIN books :
           a # b /\ books[a].publication_year = books[b].publication_year

\* C19: the free-text search of the book list keeps exactly the books whose title or
\* whose author's name contains the term, compared case-insensitively; an empty term
\* keeps every book and is not an error.
C19_SearchTitleOrAuthor ==
    LET p == queryLast.params
        r == queryLast.results
        others_absent == \A name \in DOMAIN p \ {"search"} : p[name] = None
        matches(pk) ==
            \/ icontains(Chars(books[pk].title), Chars(p.search))
            \/ icontains(Chars(author_name(books[pk].author)), Chars(p.search))
    IN  (queryLast.view \in {"BookListView", "BookSearchView"} /\ queryLast.status # 0) =>
            /\ (queryLast.status = 200 /\ p.search \notin {None, ""}) =>
                   \A i \in DOMAIN r : matches(r[i])
            /\ others_absent =>
                   /\ queryLast.status = 200
                   /\ {r[i] : i \in DOMAIN r} =
                          IF p.search \in {None, ""} THEN DOMAIN books
                          ELSE {pk \in DOMAIN books : matches(pk)}

\* search=OL: a book is listed whose title does not hold the term, its author's name does
C19_Witness ==
    /\ queryLast.view = "BookListView" /\ queryLast.status = 200
    /\ queryLast.params.search = "OL"
    /\ \E i \in DOMAIN queryLast.results :
           ~icontains(Chars(books[queryLast.results[i]].title), Chars("OL"))

\* C20: a book list request that filters by an author id naming no Author row is
\* answered 400, not an empty result list.
C20_UnknownAuthorIs400 ==
    (/\ queryLast.view = "BookListView" /\ queryLast.status # 0
     /\ queryLast.params.author \notin {None, ""}
     /\ is_number(Chars(queryLast.params.author))
     /\ int(Chars(queryLast.params.author)) \notin AuthorIds)
        => queryLast.status = 400 /\ queryLast.results = <<>>

\* C21: the feed answered to an authenticated user u holds exactly the posts whose
\* author u is following when the request is served, each once and newest first;
\* it holds no post of a user u does not follow (or no longer follows), and it
\* is empty when u follows nobody.
C21_FeedOfFollowed ==
    (feedLast.op = "feed" /\ feedLast.user \in FeedUsers) =>
        LET u == feedLast.user
            r == feedLast.results
        IN  /\ feedLast.status = 200
            /\ {r[i] : i \in DOMAIN r} =
                   {pk \in DOMAIN posts : is_following(following, u, posts[pk].author)}
            /\ \A i \in DOMAIN r, j \in DOMAIN r : i < j => r[i] > r[j]
            /\ (~ \E v \in FeedUsers : is_following(following, u, v)) => r = <<>>

C21_Witness ==
    /\ feedLast.op = "feed" /\ feedLast.user \in FeedUsers
    /\ Len(feedLast.results) >= 2
    /\ \E pk \in DOMAIN posts : ~ is_following(following, feedLast.user, posts[pk].author)
    /\ \E v \in FeedUsers : <<v, feedLast.user>> \in following
                            /\ <<feedLast.user, v>> \notin following

PostViews    == {"PostUpdateView", "PostDeleteView", "edit_post_alt", "delete_post_alt"}
CommentViews == {"CommentUpdateView", "CommentDeleteView"}

\* the request of the step was refused: sent to the login page, forbidden, or sent
\* back to the post
RefusedResponse(r) ==
    \/ r.status = 403
    \/ r.status = 302 /\ r.redirect \in {"login", "post_detail"}

post_changed(pk)    == blogPosts'[pk] # blogPosts[pk]
comment_changed(pk) == blogComments'[pk] # blogComments[pk]

\* C22 as stated: a Post or a Comment is updated or deleted only by its author -- in
\* every step that changes or removes a stored post or comment the requester is the
\* author of that row -- and an edit or delete request of a non-author or an
\* anonymous visitor is refused and changes nothing.
C22_OnlyAuthorChanges ==
    [][ /\ \A pk \in DOMAIN blogPosts :
               post_changed(pk) => blogLast'.user = blogPosts[pk].author
        /\ \A pk \in DOMAIN blogComments :
               comment_changed(pk) => blogLast'.user = blogComments[pk].author
      ]_vars

\* C22 amended: an edit or delete request on a post or a comment by anyone but its
\* author is refused (login redirect, 403, or redirect to the post) and changes no
\* row; a post changes only through a request of its author on it; a comment changes
\* only through a request of its author on it, or is removed together with its post
\* when the author of the post deletes the post.
C22_AuthorOrCascade ==
    [][ /\ (blogLast'.view \in PostViews /\ post_exists(blogLast'.pk)
              /\ blogLast'.user # blogPosts[blogLast'.pk].author)
           => (RefusedResponse(blogLast') /\ UNCHANGED <<blogPosts, blogComments>>)
        /\ (blogLast'.view \in CommentViews /\ comment_exists(blogLast'.pk)
              /\ blogLast'.user # blogComments[blogLast'.pk].author)
           => (RefusedResponse(blogLast') /\ UNCHANGED <<blogPosts, blogComments>>)
        /\ \A pk \in DOMAIN blogPosts :
               post_changed(pk) =>
                   /\ blogLast'.view \in PostViews /\ blogLast'.pk = pk
                   /\ blogLast'.user = blogPosts[pk].author
        /\ \A pk \in DOMAIN blogComments :
               comment_changed(pk) =>
                   \/ /\ blogLast'.view \in CommentViews /\ blogLast'.pk = pk
                      /\ blogLast'.user = blogComments[pk].author
                   \/ /\ blogLast'.view \in {"PostDeleteView", "delete_post_alt"}
                      /\ blogLast'.pk = blogComments[pk].post
                      /\ blogLast'.user = blogPosts[blogLast'.pk].author
                      /\ blogComments'[pk] = NoComment
                      /\ blogPosts'[blogLast'.pk] = NoPost
      ]_vars

\* a non-author was refused by a function-based view while the post and a comment of
\* another user on it are stored
C22_Witness ==
    /\ blogLast.view \in {"edit_post_alt", "delete_post_alt"}
    /\ blogLast.method = "POST"
    /\ post_exists(blogLast.pk)
    /\ blogLast.user \in BlogUsers /\ blogLast.user # blogPosts[blogLast.pk].author
    /\ blogLast.redirect = "post_detail"
    /\ \E c \in DOMAIN blogComments : comment_exists(c) /\ blogComments[c].post = blogLast.pk

C24_ConflictIsAlreadyFollowing ==
    /\ \A a \in RaceUsers, b \in RaceUsers :
           Cardinality({row \in following : row = <<a, b>>}) <= 1
    /\ \A p \in DOMAIN followProcs :
           (followProcs[p].pc = "done" /\ followProcs[p].conflict) =>
               /\ followProcs[p].status = 400
               /\ followProcs[p].error = "You are already following this user"

\* C25 as stated: a notification that is read is still read after every step,
\* whatever mark_read, mark_all_read or detail update (PUT / PATCH) request the step is.
C25_ReadNeverCleared ==
    [][\A pk \in DOMAIN notifications :
           notifications[pk].read => notifications'[pk].read]_vars

\* C25 amended: no mark_read, mark_all_read, list, retrieve or unread_count request
\* ever moves a read flag from True to False; a detail update (PUT / PATCH) changes
\* at most the read flag of the addressed notification, which belongs to the
\* requester, and nothing else.
C25_ReadClearedOnlyByOwnUpdate ==
    [][ /\ notifLast'.op # "update" =>
               \A pk \in DOMAIN notifications :
                   notifications[pk].read => notifications'[pk].read
        /\ notifLast'.op = "update" =>
               \A pk \in DOMAIN notifications :
                   notifications'[pk] # notifications[pk] =>
                       /\ pk = notifLast'.pk
                       /\ notifications[pk].recipient = notifLast'.user
                       /\ notifications'[pk] = [notifications[pk] EXCEPT !.read = ~ @]
      ]_vars

\* mark_read has acted for a user who holds another notification that is read
C25_Witness ==
    /\ notifLast.op = "mark_read" /\ notifLast.status = 200
    /\ \E pk \in DOMAIN notifications :
           /\ pk # notifLast.pk
           /\ notifications[pk].recipient = notifLast.user
           /\ notifications[pk].read

\* C26: a book list request that is answered 200 lists exactly the books that pass
\* every supplied filter (exact author / publication_year / title, year range, title
\* prefix, author-name contains, free-text search), sorted by the ordering terms; the
\* same set results whatever order the filters are applied in (any two filters can
\* change places on any queryset), and the parameters the view reads are the same
\* whatever order the query string gives them in.
C26_FiltersAndThenSort ==
    (queryLast.view = "BookListView" /\ queryLast.status = 200) =>
        LET p   == queryLast.params
            r   == queryLast.results
            set == {r[i] : i \in DOMAIN r}
        IN  /\ \A pk \in DOMAIN books :
                   pk \in set <=>
                       \A i \in DOMAIN FilterStages :
                           pk \in filter_stage(books, DOMAIN books, p, FilterStages[i])
            /\ filter_stages(books, DOMAIN books, p, FilterStages) = set
            /\ \A a, b \in DOMAIN FilterStages : \A pks \in SUBSET (DOMAIN books) :
                   a < b =>
                   filter_stages(books, pks, p, <<FilterStages[a], FilterStages[b]>>)
                       = filter_stages(books, pks, p, <<FilterStages[b], FilterStages[a]>>)
            /\ \A i, j \in DOMAIN r : i < j => r[i] # r[j]
            /\ \A i, j \in DOMAIN r :
                   i < j => ~ precedes(books, r[j], r[i], get_ordering(p.ordering))
            /\ \A qs \in QueryStrings(p) :
                   \A name \in DOMAIN p : query_params_get(qs, name) = p[name]

\* author, search and ordering together: two books are listed in the requested order
\* and a third is filtered out
C26_Witness ==
    /\ queryLast.view = "BookListView" /\ queryLast.status = 200
    /\ queryLast.params.author = "1"
    /\ queryLast.params.title_starts_with = "ri"
    /\ queryLast.params.search = "o"
    /\ Len(queryLast.results) = 1
    /\ Cardinality(DOMAIN books) = 3

\* C27 as stated: on the combined endpoints whose permissions come from
\* get_permissions (BookListCreateView, BookRetrieveUpdateDestroyView,
\* AuthorListCreateView, AuthorDetailView) every safe method (GET, HEAD, OPTIONS) is
\* allowed without authentication and every other method requires authentication.
C27_SafeMethodsOpen ==
    (accessResult.done /\ accessRequest.target \in CombinedViews) =>
        /\ accessRequest.method \in SAFE_METHODS => accessResult.allowed
        /\ accessRequest.method \in WriteMethods =>
               accessResult.allowed = accessRequest.user.is_authenticated

\* C28 as stated: a book list request (books/ or books/advanced/) whose year_from or
\* year_to is no number is answered 400, as a non-numeric publication_year is; it
\* never ends in an unhandled failure and the value is never silently ignored.
C28_BadRangeIs400 ==
    LET p == queryLast.params
        bad(v) == v \notin {None, ""} /\ ~is_number(Chars(v))
    IN  (/\ queryLast.view \in {"BookListView", "BookAdvancedListView"}
         /\ queryLast.status # 0
         /\ (bad(p.year_from) \/ bad(p.year_to)))
            => queryLast.status = 400 /\ queryLast.results = <<>>

\* C29 as stated: duplicate_book by an authenticated user on an existing book, in any
\* reachable state (also after earlier duplications), is answered 201 and creates
\* exactly one new Book, titled original + ' (Copy)' with the same author and
\* publication_year, and leaves the original and every other book unchanged.
C29_DuplicateCreatesOneCopy ==
    [][(/\ bookLast'.view = "duplicate_book"
        /\ bookLast'.user.is_authenticated
        /\ bookLast'.pk \in DOMAIN books)
          => /\ bookLast'.status = 201
             /\ \A k \in DOMAIN books : k \in DOMAIN books' /\ books'[k] = books[k]
             /\ \E new \in DOMAIN books' \ DOMAIN books :
                    /\ DOMAIN books' = DOMAIN books \cup {new}
                    /\ books'[new].title = books[bookLast'.pk].title \o " (Copy)"
                    /\ books'[new].author = books[bookLast'.pk].author
                    /\ books'[new].publication_year = books[bookLast'.pk].publication_year
      ]_vars

\* C30 as stated: every User has exactly one UserProfile in every reachable state,
\* and creating a user -- by the post_save signal alone, or by
\* CustomUserCreationForm.save with commit (as the register view does) -- completes
\* and leaves exactly one profile for that user.
C30_OneProfilePerUser ==
    /\ \A n \in authUsers : Cardinality(profiles_of(userProfiles, n)) = 1
    /\ \A i \in DOMAIN userProfiles : userProfiles[i].user \in authUsers
    /\ (profileLast.op \in {"create_user", "form_save_commit", "register"}
          /\ profileLast.outcome # "invalid")
       => /\ profileLast.outcome = "ok"
          /\ profileLast.username \in authUsers

====
